---- MODULE Spec2Model ----
(***************************************************************************)
(* A model of defi-cli's on-chain position reader: the JSON-RPC client of  *)
(* defi_cli/rpc_helpers.py (eth_call, eth_call_batch, eth_block_number),   *)
(* its ABI encoders and decoders, PositionReader.read_position with        *)
(* _compute_fees of position_reader.py, _detect_position_network of        *)
(* defi_cli/commands.py and _RateLimiter of defi_cli/dexscreener_client.py,*)
(* and of the position mathematics of position_reader.py and               *)
(* real_defi_math.py, PositionIndexer.list_positions and cmd_report.       *)
(*                                                                         *)
(* Representation.  A hex payload (a result string without its 0x prefix)  *)
(* is a record [words, tail]: the complete 32-byte words it holds, each an *)
(* integer in 0..Q256-1 or NotHex (a word with a character int(_, 16)      *)
(* rejects), and the characters left after the last complete word, each a  *)
(* hex digit 0..15 or NotHex.  The empty string is [<<>>, <<>>].           *)
(* TLC's integers are 32 bits wide, so the 256-bit word is scaled to       *)
(* WordBits bits: Q256 = 2^WordBits and Q128 = 2^(WordBits \div 2).        *)
(* A float quotient raw / 10^decimals is kept exact as [num, dec].         *)
(***************************************************************************)
EXTENDS Integers, Sequences, FiniteSets, TLC

VARIABLES
    \* ---- eth_call_batch, one invocation (SpecBatch) ----
    b_pc,        \* "idle" | "sent" | "answered" | "returned" | "raised"
    b_n,         \* number of calls submitted
    b_payloads,  \* the JSON array posted: ids of the request objects
    b_reply,     \* what resp.json() yields (or the transport failure)
    b_out,       \* the list eth_call_batch returns
    \* ---- _compute_fees, one invocation (SpecFees) ----
    f_pc,        \* "idle" | "returned"
    f_in,        \* <<arguments>> of the invocation, <<>> before it
    f_out,       \* <<result>> of the invocation, <<>> before it
    \* ---- PositionReader.read_position, one invocation (Spec) ----
    pc,            \* where the coroutine is suspended, "returned" or "raised"
    position_id,   \* argument: the NFT token id
    pool_arg,      \* argument pool_address: <<>> for None, <<address>>
    head,          \* the chain's latest block
    sent,          \* every request posted so far, in order
    pending,       \* indices in sent of the requests not yet answered
    block_number,  \* local block_number (<<>> before it is assigned)
    pos,           \* local pos, the decoded position record
    pool_address,  \* local pool_address
    batch_results, \* local batch_results
    pool_state,    \* the locals decoded from batch_results
    tick_batch,    \* local tick_batch
    snapshot,      \* <<the dict returned>>
    error,         \* the exception that left read_position ("" if none)
    eval_blocks,   \* history: the blocks the node evaluated this run's eth_calls at
    answers,       \* history: how each request of sent was answered, in order
    \* ---- one call of a function: of rpc_helpers.py (SpecCalls), of the
    \* ---- position mathematics (SpecMath), list_positions (SpecIndexer)
    \* ---- and cmd_report (SpecReport) ----
    c_pc,        \* "idle" | "called" | "returned" | "raised", and in
                 \* cmd_report the statement the run has reached
    c_fn,        \* the function called
    c_arg,       \* its argument
    c_out,       \* the value returned, or the exception raised; for
                 \* cmd_report the consent given and the effects so far
    \* ---- _detect_position_network, one invocation (SpecDetect) ----
    d_pc,        \* "idle" | "start" | "gather" | "returned"
    d_tasks,     \* per candidate network: the state of its _try_network task
    d_out,       \* <<the value returned>>: a network or None
    \* ---- one _RateLimiter and the tasks that share it (SpecLimiter) ----
    lim_now,         \* time.monotonic(), in ticks
    lim_timestamps,  \* self._timestamps
    lim_tasks,       \* per task: where it is in acquire()
    lim_granted      \* history: the times at which a call of acquire() returned

batchVars == <<b_pc, b_n, b_payloads, b_reply, b_out>>
feeVars == <<f_pc, f_in, f_out>>
readVars ==
    <<pc, position_id, pool_arg, head, sent, pending, block_number, pos,
      pool_address, batch_results, pool_state, tick_batch, snapshot, error,
      eval_blocks, answers>>
callVars == <<c_pc, c_fn, c_arg, c_out>>
detectVars == <<d_pc, d_tasks, d_out>>
limiterVars == <<lim_now, lim_timestamps, lim_tasks, lim_granted>>
\* The variables outside read_position, eth_call_batch and _compute_fees.
otherVars == <<callVars, detectVars, limiterVars>>

\* ------------------------------------------------------------------ bounds

\* Width of the scaled ABI word, in bits.
WordBits == 12
\* Largest batch eth_call_batch is given in SpecBatch.
MaxBatch == 3

\* ------------------------------------------------------- words and payloads

Q256 == 2 ^ WordBits
Q128 == 2 ^ (WordBits \div 2)
SIGN_BIT == 2 ^ (WordBits - 1)

\* A word or character that int(_, 16) rejects.
NotHex == -1

EmptyPayload == [words |-> <<>>, tail |-> <<>>]

\* The payload of n complete words.
Words(ws) == [words |-> ws, tail |-> <<>>]

\* Python truthiness of a payload string: the empty string is falsy.
Truthy(p) == Len(p.words) > 0 \/ Len(p.tail) > 0

RECURSIVE TailValue(_)
\* int(tail, 16) of a run of hex digits.
TailValue(t) ==
    IF Len(t) = 0 THEN 0
    ELSE 16 * TailValue(SubSeq(t, 1, Len(t) - 1)) + t[Len(t)]

\* decode_uint raises ValueError: the slice hex_data[start:start+64] is empty
\* (the slot lies past the end) or holds a character that is no hex digit.
decode_uint_raises(p, slot) ==
    IF slot < Len(p.words) THEN p.words[slot + 1] = NotHex
    ELSE IF slot = Len(p.words) /\ Len(p.tail) > 0
         THEN \E i \in 1..Len(p.tail) : p.tail[i] = NotHex
         ELSE TRUE

\* decode_uint: the slot-th word; a slice cut short by the end of the string
\* is read as the shorter number it spells.
decode_uint(p, slot) ==
    IF slot < Len(p.words) THEN p.words[slot + 1] ELSE TailValue(p.tail)

\* decode_int: two's complement of decode_uint.
decode_int(p, slot) ==
    LET val == decode_uint(p, slot)
    IN  IF val >= SIGN_BIT THEN val - Q256 ELSE val

\* ------------------------------------------------------------ eth_call_batch

\* What the i-th call of a batch evaluates to on the node.
ResultOf(i) == Words(<<i>>)

\* A response object of a JSON-RPC batch reply.  call: the request the node
\* answered with it (not visible to the client); has_id/id: its "id" member;
\* has_result: it has a "result" member (otherwise an "error" member).
ResponseObject(c, withId, withResult, res) ==
    [call |-> c, has_id |-> withId, id |-> c,
     has_result |-> withResult,
     result |-> IF withResult THEN res ELSE EmptyPayload]

\* r.get("id", 0)
SortKey(r) == IF r.has_id THEN r.id ELSE 0

RECURSIVE InsertByKey(_, _)
InsertByKey(s, r) ==
    IF Len(s) = 0 THEN <<r>>
    ELSE IF SortKey(s[Len(s)]) <= SortKey(r) THEN Append(s, r)
    ELSE Append(InsertByKey(SubSeq(s, 1, Len(s) - 1), r), s[Len(s)])

RECURSIVE SortedById(_)
\* list.sort(key=...) is stable: equal keys keep their order
SortedById(s) ==
    IF Len(s) = 0 THEN <<>>
    ELSE InsertByKey(SortedById(SubSeq(s, 1, Len(s) - 1)), s[Len(s)])

\* results.sort(key=lambda r: r.get("id", 0)) -- this variant leaves the
\* reply in the order it arrived.
ReplyArrivalOrder(s) == s

ReplyOrder(s) == SortedById(s)

\* r.get("result", "0x")[2:] if "result" in r else ""
Extract(r) == IF r.has_result THEN r.result ELSE EmptyPayload

\* The value eth_call_batch returns for a reply that parsed as JSON.
\* reply.kind = "list": a JSON array; "single": one JSON object.
BatchResults(reply) ==
    IF reply.kind = "list"
    THEN LET sorted == ReplyOrder(reply.items)
         IN  [i \in 1..Len(sorted) |-> Extract(sorted[i])]
    ELSE <<Extract(reply.items[1])>>

\* The sequences over S of length n without repetition.
RECURSIVE Arrangements(_, _)
Arrangements(S, n) ==
    IF n = 0 THEN {<<>>}
    ELSE UNION {{Append(a, x) : x \in S \ {a[i] : i \in 1..Len(a)}} :
                a \in Arrangements(S, n - 1)}

\* Every reply a server may give to a batch of n calls: a transport failure
\* (timeout, body that is no JSON), a single object (no batch support), or an
\* array answering any subset of the calls in any order, each answer with or
\* without its id, carrying a result or an error.
BatchReplies(n) ==
    {[kind |-> "raise", items |-> <<>>]}
    \cup {[kind |-> "single", items |-> <<ResponseObject(1, TRUE, wr, ResultOf(1))>>] :
            wr \in BOOLEAN}
    \cup UNION {UNION {
            {[kind |-> "list",
              items |-> [i \in 1..k |-> ResponseObject(a[i], wid[i], wres[i], ResultOf(a[i]))]] :
                wid \in [1..k -> BOOLEAN], wres \in [1..k -> BOOLEAN]} :
            a \in Arrangements(1..n, k)} : k \in 0..n}

NoReply == [kind |-> "none", items |-> <<>>]

\* lines 251-258: one request object per call, ids 1..N
BatchRequest ==
    /\ b_pc = "idle"
    /\ \E n \in 1..MaxBatch :
          /\ b_n' = n
          /\ b_payloads' = [i \in 1..n |-> i]
    /\ b_pc' = "sent"
    /\ UNCHANGED <<b_reply, b_out, feeVars, readVars, otherVars>>

\* lines 260-262: client.post and resp.json()
BatchRespond ==
    /\ b_pc = "sent"
    /\ \E reply \in BatchReplies(b_n) : b_reply' = reply
    /\ b_pc' = "answered"
    /\ UNCHANGED <<b_n, b_payloads, b_out, feeVars, readVars, otherVars>>

\* lines 260-270: the exception propagates, or the results are returned
BatchReturn ==
    /\ b_pc = "answered"
    /\ IF b_reply.kind = "raise"
       THEN b_pc' = "raised" /\ b_out' = <<>>
       ELSE b_pc' = "returned" /\ b_out' = BatchResults(b_reply)
    /\ UNCHANGED <<b_n, b_payloads, b_reply, feeVars, readVars, otherVars>>

\* ------------------------------------------------------------ _compute_fees

\* if current_tick >= pos["tickLower"]: outside else (global - outside) % Q256
FeeGrowthBelow(current_tick, tickLower, fg_global, fg_outside_lower) ==
    IF current_tick >= tickLower THEN fg_outside_lower
    ELSE (fg_global - fg_outside_lower) % Q256

\* if current_tick < pos["tickUpper"]: outside else (global - outside) % Q256
FeeGrowthAbove(current_tick, tickUpper, fg_global, fg_outside_upper) ==
    IF current_tick < tickUpper THEN fg_outside_upper
    ELSE (fg_global - fg_outside_upper) % Q256
\* A variant without the reduction modulo 2^256.
FeeGrowthInsideUnreduced(fg_global, fg_below, fg_above) ==
    fg_global - fg_below - fg_above

\* fg_inside = (fg_global - fg_below - fg_above) % Q256
FeeGrowthInside(fg_global, fg_below, fg_above) ==
    (fg_global - fg_below - fg_above) % Q256

\* (liq * ((fg_inside - last) % Q256)) // Q128, plus tokensOwed
FeesRaw(liq, fg_inside, last, owed) ==
    (liq * ((fg_inside - last) % Q256)) \div Q128 + owed

\* The float quotient raw / (10 ** decimals), kept exact.
Scaled(raw, decimals) == [num |-> raw, dec |-> decimals]

\* The try block raises: a tick payload is the empty string, or one of the
\* four decode_uint calls (slots 2 and 3 of each payload) raises.
FeesTryRaises(a) ==
    \/ ~Truthy(a.tick_lower_data)
    \/ ~Truthy(a.tick_upper_data)
    \/ decode_uint_raises(a.tick_lower_data, 2)
    \/ decode_uint_raises(a.tick_lower_data, 3)
    \/ decode_uint_raises(a.tick_upper_data, 2)
    \/ decode_uint_raises(a.tick_upper_data, 3)

\* The local variables of the try block when it runs to its return.
FeeLocals(a) ==
    LET fg0_outside_lower == decode_uint(a.tick_lower_data, 2)
        fg1_outside_lower == decode_uint(a.tick_lower_data, 3)
        fg0_outside_upper == decode_uint(a.tick_upper_data, 2)
        fg1_outside_upper == decode_uint(a.tick_upper_data, 3)
        fg0_below == FeeGrowthBelow(a.current_tick, a.pos.tickLower,
                                    a.fg0_global, fg0_outside_lower)
        fg1_below == FeeGrowthBelow(a.current_tick, a.pos.tickLower,
                                    a.fg1_global, fg1_outside_lower)
        fg0_above == FeeGrowthAbove(a.current_tick, a.pos.tickUpper,
                                    a.fg0_global, fg0_outside_upper)
        fg1_above == FeeGrowthAbove(a.current_tick, a.pos.tickUpper,
                                    a.fg1_global, fg1_outside_upper)
        fg0_inside == FeeGrowthInside(a.fg0_global, fg0_below, fg0_above)
        fg1_inside == FeeGrowthInside(a.fg1_global, fg1_below, fg1_above)
    IN  [fg0_outside_lower |-> fg0_outside_lower,
         fg1_outside_lower |-> fg1_outside_lower,
         fg0_outside_upper |-> fg0_outside_upper,
         fg1_outside_upper |-> fg1_outside_upper,
         fg0_below |-> fg0_below, fg1_below |-> fg1_below,
         fg0_above |-> fg0_above, fg1_above |-> fg1_above,
         fg0_inside |-> fg0_inside, fg1_inside |-> fg1_inside,
         fees0_raw |-> FeesRaw(a.pos.liquidity, fg0_inside,
                               a.pos.feeGrowthInside0LastX128, a.pos.tokensOwed0),
         fees1_raw |-> FeesRaw(a.pos.liquidity, fg1_inside,
                               a.pos.feeGrowthInside1LastX128, a.pos.tokensOwed1)]

\* _compute_fees: the fees of the try block, or on any exception the
\* tokensOwed of the position alone.  locals: the try block's variables when
\* it returned (<<>> when the except branch returned).
compute_fees(a) ==
    IF FeesTryRaises(a)
    THEN [fees0 |-> Scaled(a.pos.tokensOwed0, a.decimals0),
          fees1 |-> Scaled(a.pos.tokensOwed1, a.decimals1),
          locals |-> <<>>]
    ELSE LET l == FeeLocals(a)
         IN  [fees0 |-> Scaled(l.fees0_raw, a.decimals0),
              fees1 |-> Scaled(l.fees1_raw, a.decimals1),
              locals |-> <<l>>]

\* Sample words: zero, the scenario's 1000, and the largest word.
SampleWords == {0, 1000, Q256 - 1}

\* A ticks() payload with the given feeGrowthOutside words, in each shape a
\* node or a proxy in between may deliver it.
TickPayload(shape, o0, o1) ==
    CASE shape = "full"      -> Words(<<0, 0, o0, o1>>)
      [] shape = "empty"     -> EmptyPayload
      [] shape = "three"     -> Words(<<0, 0, o0>>)
      [] shape = "cut"       -> [words |-> <<0, 0, o0>>, tail |-> <<2, 10>>]
      [] shape = "twocut"    -> [words |-> <<0, 0>>, tail |-> <<7>>]
      [] shape = "nothex"    -> Words(<<0, 0, NotHex, o1>>)
      [] shape = "nothextail" -> [words |-> <<0, 0, o0>>, tail |-> <<2, NotHex>>]
      [] shape = "nothexhead" -> Words(<<NotHex, 0, o0, o1>>)

TickShapes ==
    {"full", "empty", "three", "cut", "twocut", "nothex", "nothextail",
     "nothexhead"}

\* The position record of the invocation: range [0, 2).
FeePosition(liq, last0, last1, owed0, owed1) ==
    [tickLower |-> 0, tickUpper |-> 2, liquidity |-> liq,
     feeGrowthInside0LastX128 |-> last0, feeGrowthInside1LastX128 |-> last1,
     tokensOwed0 |-> owed0, tokensOwed1 |-> owed1]

\* The arguments _compute_fees is applied to.
FeeInputs ==
    {[pos |-> FeePosition(liq, last0, t1[4], owed[1], owed[2]),
      current_tick |-> tick,
      fg0_global |-> g0, fg1_global |-> t1[1],
      tick_lower_data |-> TickPayload(sh[1], ol0, t1[2]),
      tick_upper_data |-> TickPayload(sh[2], ou0, t1[3]),
      decimals0 |-> 18, decimals1 |-> 6] :
        liq \in {0, 3, Q128}, last0 \in SampleWords,
        owed \in {<<0, 0>>, <<5, 7>>},
        tick \in {-1, 0, 1, 2},
        g0 \in SampleWords, ol0 \in SampleWords, ou0 \in SampleWords,
        t1 \in {<<0, 0, 0, 0>>, <<1000, 0, 0, 0>>, <<0, Q256 - 1, 1, 0>>,
                <<1, 0, 0, Q256 - 1>>},
        sh \in ({"full"} \X TickShapes) \cup (TickShapes \X {"full"})}

\* lines 536-607
ComputeFees ==
    /\ f_pc = "idle"
    /\ f_in # <<>>
    /\ f_out' = <<compute_fees(f_in[1])>>
    /\ f_pc' = "returned"
    /\ UNCHANGED <<f_in, batchVars, readVars, otherVars>>

\* ------------------------------------------------------------------ eth_call

ABI_WORD_HEX == 64
ABI_WORD_BYTES == 32

\* len() of the payload string, in characters
HexLen(p) == ABI_WORD_HEX * Len(p.words) + Len(p.tail)

\* decode_address: the last 20 bytes of the slot, "0x"-prefixed.  Addresses
\* are kept as the numbers their words spell; a slot past the end of the
\* payload yields the bare prefix "0x", which is no address (NoAddress).
NoAddress == -2

decode_address(p, slot) ==
    IF slot < Len(p.words) THEN p.words[slot + 1] ELSE NoAddress

\* encode_int24: negative values as Q256 + value
encode_int24(value) == IF value < 0 THEN Q256 + value ELSE value

\* A reply to a single JSON-RPC request.  kind "transport": client.post or
\* resp.json() raised; "error": the object has an "error" member; "noresult":
\* it has neither "error" nor "result"; "result": it has "result" "0x" + result.
SingleReply(kind, res) == [kind |-> kind, result |-> res]

\* A variant whose length test is missing: only the bare "0x" is refused.
eth_call_raises_only_0x(reply) ==
    \/ reply.kind = "transport"
    \/ reply.kind = "error"
    \/ reply.kind = "noresult"
    \/ reply.kind = "result" /\ HexLen(reply.result) = 0

\* eth_call raises: lines 229-235
eth_call_raises(reply) ==
    \/ reply.kind = "transport"
    \/ reply.kind = "error"
    \/ reply.kind = "noresult"
    \/ reply.kind = "result" /\ HexLen(reply.result) < 2

\* eth_call's return value raw[2:]
eth_call_value(reply) == reply.result

\* The exception eth_call raises: what client.post or resp.json() raised,
\* the RuntimeError of line 232 or the RuntimeError of line 235.
eth_call_exception(reply) ==
    IF reply.kind = "transport" THEN "httpx.HTTPError"
    ELSE IF reply.kind = "error" THEN "RuntimeError: RPC error"
    ELSE "RuntimeError: Empty response"

\* --------------------------------------------------------------- chain data

\* Contract addresses: the position manager and factory of the DEX registry,
\* the pool and the two tokens of the positions read.
PositionManager == 1
Factory == 2
Token0 == 17
Token1 == 18
Pool == 33
ZeroAddress == 0

\* The (to, data) pair of an eth_call: data is the selector and its arguments.
Call(to, selector, args) == [to |-> to, selector |-> selector, args |-> args]

\* positions(tokenId) on the node: position 1 is open, position 2 is closed
\* (zero liquidity); both span the ticks [-1, 1).  Position 3 is a record
\* with its ticks the wrong way round (tickLower = 1, tickUpper = -1).
PositionsResult(token_id) ==
    Words(<<0, 0, Token0, Token1, 500,
            encode_int24(IF token_id = 3 THEN 1 ELSE -1),
            encode_int24(IF token_id = 3 THEN -1 ELSE 1),
            IF token_id = 2 THEN 0 ELSE 3, 0, 0, 5, 7>>)

\* The pool's tick at block b: -1, 0, 1, ... as the chain grows.
TickAt(b) == b - 2

\* symbol() texts by the code their data word carries
SymbolText(code) ==
    CASE code = 1 -> "WBTC"
      [] code = 2 -> "USDT0"
      [] OTHER -> "UNK"

\* What an eth_call of c evaluates to at block b.
ChainResult(c, b) ==
    CASE c.selector = "positions" -> PositionsResult(c.args[1])
      [] c.selector = "getPool" -> Words(<<Pool>>)
      [] c.selector = "slot0" -> Words(<<64 + b, encode_int24(TickAt(b))>>)
      [] c.selector = "liquidity" -> Words(<<10 + b>>)
      [] c.selector = "feeGrowthGlobal0X128" -> Words(<<1000 + b>>)
      [] c.selector = "feeGrowthGlobal1X128" -> Words(<<2000 + b>>)
      [] c.selector = "decimals" -> Words(<<IF c.to = Token0 THEN 8 ELSE 6>>)
      [] c.selector = "symbol" ->
            Words(<<ABI_WORD_BYTES, 4, IF c.to = Token0 THEN 1 ELSE 2>>)
      [] c.selector = "ticks" -> Words(<<3, 3, 100 + b, 200 + b>>)

\* The replies a node may give to a single eth_call of c.
SingleReplies(c) ==
    {SingleReply("transport", EmptyPayload), SingleReply("error", EmptyPayload),
     SingleReply("noresult", EmptyPayload), SingleReply("result", EmptyPayload),
     SingleReply("result", ChainResult(c, head))}
    \cup (IF c.selector = "getPool"
          THEN {SingleReply("result", Words(<<ZeroAddress>>))} ELSE {})

\* The replies a node may give to a batch: a transport failure, a single
\* object (no batch support), or an array with the answers in request or in
\* reverse order, at most one of them an error or all of them, or with the
\* last answer missing.
ReadBatchReplies(calls) ==
    LET n == Len(calls)
        obj(i, ok) == ResponseObject(i, TRUE, ok, ChainResult(calls[i], head))
        fails == {{}} \cup {{i} : i \in 1..n} \cup {1..n}
    IN  {[kind |-> "raise", items |-> <<>>]}
        \cup {[kind |-> "single", items |-> <<obj(1, TRUE)>>]}
        \cup {[kind |-> "list", items |-> [i \in 1..n |-> obj(i, i \notin E)]] :
                E \in fails}
        \cup {[kind |-> "list",
               items |-> [i \in 1..n |-> obj(n + 1 - i, (n + 1 - i) \notin E)]] :
                E \in fails}
        \cup {[kind |-> "list", items |-> [i \in 1..(n - 1) |-> obj(i, TRUE)]]}

\* ---------------------------------------------------------- symbols, decode

\* decode_string on a well-formed or empty payload: offset word, length word,
\* data; anything else ends in the fallbacks' "UNK".
decode_string(p) ==
    IF /\ Len(p.words) >= 3
       /\ p.words[1] = ABI_WORD_BYTES
    THEN SymbolText(p.words[3])
    ELSE "UNK"

\* normalize_symbol: SYMBOL_MAP.get(cleaned, cleaned)
normalize_symbol(raw_symbol) ==
    IF raw_symbol = "USDT0" THEN "USDT" ELSE raw_symbol

\* _read_position_nft raises while decoding: one of its decode_uint/decode_int
\* slots is missing or no hex
PositionDecodeRaises(result) ==
    \E slot \in {0, 4, 5, 6, 7, 8, 9, 10, 11} : decode_uint_raises(result, slot)

\* _read_position_nft: the 12 fields of positions(tokenId)
PositionRecord(result) ==
    [nonce |-> decode_uint(result, 0),
     operator |-> decode_address(result, 1),
     token0 |-> decode_address(result, 2),
     token1 |-> decode_address(result, 3),
     fee |-> decode_uint(result, 4),
     tickLower |-> decode_int(result, 5),
     tickUpper |-> decode_int(result, 6),
     liquidity |-> decode_uint(result, 7),
     feeGrowthInside0LastX128 |-> decode_uint(result, 8),
     feeGrowthInside1LastX128 |-> decode_uint(result, 9),
     tokensOwed0 |-> decode_uint(result, 10),
     tokensOwed1 |-> decode_uint(result, 11)]

\* lines 177-186
batch_calls(pool, p) ==
    <<Call(pool, "slot0", <<>>),
      Call(pool, "liquidity", <<>>),
      Call(pool, "feeGrowthGlobal0X128", <<>>),
      Call(pool, "feeGrowthGlobal1X128", <<>>),
      Call(p.token0, "decimals", <<>>),
      Call(p.token1, "decimals", <<>>),
      Call(p.token0, "symbol", <<>>),
      Call(p.token1, "symbol", <<>>)>>

\* lines 228-235
tick_calls(pool, p) ==
    <<Call(pool, "ticks", <<p.tickLower>>),
      Call(pool, "ticks", <<p.tickUpper>>)>>

\* lines 201-223 raise: IndexError when batch_results is shorter than the
\* eight entries read, ValueError when a non-empty entry does not decode
ParseRaises(br) ==
    \/ Len(br) < 8
    \/ Truthy(br[1]) /\ (decode_uint_raises(br[1], 0) \/ decode_uint_raises(br[1], 1))
    \/ \E i \in {2, 3, 4, 5, 6} : Truthy(br[i]) /\ decode_uint_raises(br[i], 0)

\* lines 210-223: the decoded pool state, with the defaults taken for an
\* empty entry
PoolState(br) ==
    [sqrtPriceX96 |-> IF Truthy(br[1]) THEN decode_uint(br[1], 0) ELSE 0,
     current_tick |-> IF Truthy(br[1]) THEN decode_int(br[1], 1) ELSE 0,
     pool_liquidity |-> IF Truthy(br[2]) THEN decode_uint(br[2], 0) ELSE 0,
     decimals0 |-> IF Truthy(br[5]) THEN decode_uint(br[5], 0) ELSE 18,
     decimals1 |-> IF Truthy(br[6]) THEN decode_uint(br[6], 0) ELSE 6,
     symbol0 |-> IF Truthy(br[7]) THEN normalize_symbol(decode_string(br[7]))
                 ELSE "TOKEN0",
     symbol1 |-> IF Truthy(br[8]) THEN normalize_symbol(decode_string(br[8]))
                 ELSE "TOKEN1",
     fg0_global |-> IF Truthy(br[3]) THEN decode_uint(br[3], 0) ELSE 0,
     fg1_global |-> IF Truthy(br[4]) THEN decode_uint(br[4], 0) ELSE 0]

\* lines 380-422: the raw_calls list of the audit trail
RawCalls(id, pool, p, st) ==
    <<[label |-> "positions(uint256)",
       call |-> Call(PositionManager, "positions", <<id>>),
       has_calldata |-> TRUE,
       decoded |-> [liquidity |-> p.liquidity, tickLower |-> p.tickLower,
                    tickUpper |-> p.tickUpper, fee |-> p.fee,
                    token0 |-> p.token0, token1 |-> p.token1]],
      [label |-> "slot0()",
       call |-> Call(pool, "slot0", <<>>),
       has_calldata |-> FALSE,
       decoded |-> [sqrtPriceX96 |-> st.sqrtPriceX96, tick |-> st.current_tick]],
      [label |-> "liquidity()",
       call |-> Call(pool, "liquidity", <<>>),
       has_calldata |-> FALSE,
       decoded |-> [liquidity |-> st.pool_liquidity]],
      [label |-> "feeGrowthGlobal0X128()",
       call |-> Call(pool, "feeGrowthGlobal0X128", <<>>),
       has_calldata |-> FALSE,
       decoded |-> [value |-> st.fg0_global]],
      [label |-> "feeGrowthGlobal1X128()",
       call |-> Call(pool, "feeGrowthGlobal1X128", <<>>),
       has_calldata |-> FALSE,
       decoded |-> [value |-> st.fg1_global]]>>

\* lines 247-434: the dict read_position returns (the float-valued amounts,
\* prices and USD values are left out; fees are kept exact)
Snapshot(id, blk, pool, p, st, tb) ==
    [position_id |-> id,
     pool_address |-> pool,
     token0_symbol |-> st.symbol0, token1_symbol |-> st.symbol1,
     token0_decimals |-> st.decimals0, token1_decimals |-> st.decimals1,
     liquidity_raw |-> p.liquidity,
     tickLower |-> p.tickLower, tickUpper |-> p.tickUpper,
     in_range |-> (p.tickLower <= st.current_tick /\ st.current_tick < p.tickUpper),
     fees |-> compute_fees([pos |-> p, current_tick |-> st.current_tick,
                            fg0_global |-> st.fg0_global,
                            fg1_global |-> st.fg1_global,
                            tick_lower_data |-> tb[1], tick_upper_data |-> tb[2],
                            decimals0 |-> st.decimals0,
                            decimals1 |-> st.decimals1]),
     pool_liquidity |-> st.pool_liquidity,
     sqrtPriceX96 |-> st.sqrtPriceX96,
     pool_tick |-> st.current_tick,
     block_number |-> blk,
     audit_trail |-> [block_number |-> blk,
                      raw_calls |-> RawCalls(id, pool, p, st)]]

\* ------------------------------------------------------------ read_position

\* Latest block the chain reaches while one read_position runs.
MaxHead == 2

\* The requests eth_block_number, eth_call and eth_call_batch post.
EthBlockNumberRequest ==
    [method |-> "eth_blockNumber", batch |-> FALSE, calls |-> <<>>, block |-> ""]

EthCallRequest(c) ==
    [method |-> "eth_call", batch |-> FALSE, calls |-> <<c>>, block |-> "latest"]

EthCallBatchRequest(cs) ==
    [method |-> "eth_call", batch |-> TRUE, calls |-> cs, block |-> "latest"]

\* The request the coroutine is suspended on: the oldest one pending.
Answered == CHOOSE i \in pending : \A j \in pending : i <= j

\* client.post: the requests reqs leave, the answered ones are done.  Nothing
\* else happens on the way out: eth_call, eth_call_batch and eth_block_number
\* go from building the payload straight to client.post, so the module-level
\* _rpc_limiter (the limiter of lim_timestamps and lim_granted in Spec) is
\* left as it was constructed.
Post(done, reqs) ==
    /\ sent' = sent \o reqs
    /\ pending' = (pending \ done) \cup {Len(sent) + i : i \in 1..Len(reqs)}

\* An exception leaves read_position.
Raise(e) ==
    /\ pc' = "raised"
    /\ error' = e
    /\ snapshot' = snapshot
    /\ sent' = sent
    /\ pending' = pending \ {Answered}

\* The node evaluated the call(s) of a reply at its head ("latest").
SingleEvaluated(reply) == reply.kind = "result" /\ Truthy(reply.result)

BatchEvaluated(reply) ==
    \E i \in 1..Len(reply.items) : reply.items[i].has_result

\* How a single eth_call was answered: it returned ("ok") or raised.
SingleAnswer(reply) ==
    [kind |-> IF eth_call_raises(reply) THEN "failed" ELSE "ok", n |-> 1]

\* How a batch was answered: it raised, or returned an array of n answers or
\* a single object.
BatchAnswer(reply) == [kind |-> reply.kind, n |-> Len(reply.items)]

\* A variant that issues the eight calls as eight requests at once.
Step4RequestsGathered(cs) == [i \in 1..Len(cs) |-> EthCallRequest(cs[i])]

\* line 189: one batched request for the eight calls
Step4Requests(cs) == <<EthCallBatchRequest(cs)>>

\* lines 149-156: validate the arguments, then query the block number
Start ==
    /\ pc = "start"
    /\ IF position_id < 0
       THEN /\ pc' = "raised"
            /\ error' = "ValueError"
            /\ UNCHANGED <<sent, pending>>
       ELSE /\ pc' = "await_block_number"
            /\ error' = error
            /\ Post({}, <<EthBlockNumberRequest>>)
    /\ UNCHANGED <<position_id, pool_arg, head, block_number, pos, pool_address,
                   batch_results, pool_state, tick_batch, snapshot,
                   eval_blocks, answers, batchVars, feeVars, otherVars>>

\* eth_block_number raises: a transport failure or an "error" member
eth_block_number_raises(reply) == reply.kind \in {"transport", "error"}

\* A variant that hands the failure of eth_block_number on instead of 0.
get_block_number_unguarded(reply) ==
    IF eth_block_number_raises(reply) THEN -1 ELSE reply.number

\* _get_block_number: eth_block_number's value, 0 on any exception
get_block_number(reply) ==
    IF eth_block_number_raises(reply) THEN 0 ELSE reply.number

BlockNumberReplies ==
    {[kind |-> "transport", number |-> 0], [kind |-> "error", number |-> 0],
     [kind |-> "result", number |-> head]}

\* lines 156-160: block_number is assigned, positions(tokenId) is called
RecvBlockNumber ==
    /\ pc = "await_block_number"
    /\ \E reply \in BlockNumberReplies :
          /\ block_number' = <<get_block_number(reply)>>
          /\ answers' = Append(answers,
                [kind |-> IF eth_block_number_raises(reply) THEN "failed" ELSE "ok",
                 n |-> 1])
    /\ pc' = "await_positions"
    /\ Post({Answered},
            <<EthCallRequest(Call(PositionManager, "positions", <<position_id>>))>>)
    /\ UNCHANGED <<position_id, pool_arg, head, pos, pool_address,
                   batch_results, pool_state, tick_batch, snapshot, error,
                   eval_blocks, batchVars, feeVars, otherVars>>

\* lines 162-189 once pos is known: resolve the pool through the factory when
\* no pool address was given, otherwise go on to the batch
GotPosition(p) ==
    /\ pos' = <<p>>
    /\ error' = error
    /\ snapshot' = snapshot
    /\ IF pool_arg = <<>>
       THEN /\ pool_address' = pool_address
            /\ pc' = "await_getPool"
            /\ Post({Answered},
                    <<EthCallRequest(Call(Factory, "getPool",
                                          <<p.token0, p.token1, p.fee>>))>>)
       ELSE /\ pool_address' = pool_arg
            /\ pc' = "await_batch"
            /\ Post({Answered}, Step4Requests(batch_calls(pool_arg[1], p)))

\* A variant that swallows a failed positions() call and goes on with an empty
\* position record.
ReadPositionNftSwallowed(reply) ==
    IF eth_call_raises(reply) \/ PositionDecodeRaises(eth_call_value(reply))
    THEN GotPosition(PositionRecord(Words(<<0, 0, 0, 0, 0, 0, 0, 0, 0, 0, 0, 0>>)))
    ELSE GotPosition(PositionRecord(eth_call_value(reply)))

\* A variant that sends positions() again when the call failed.
ReadPositionNftRetried(reply) ==
    IF eth_call_raises(reply)
    THEN /\ pc' = pc
         /\ Post({Answered}, <<sent[Answered]>>)
         /\ UNCHANGED <<pos, pool_address, error, snapshot>>
    ELSE IF PositionDecodeRaises(eth_call_value(reply))
    THEN Raise("ValueError") /\ UNCHANGED <<pos, pool_address>>
    ELSE GotPosition(PositionRecord(eth_call_value(reply)))

\* line 160 and lines 438-463: _read_position_nft; its exceptions propagate
ReadPositionNft(reply) ==
    IF eth_call_raises(reply)
    THEN Raise("RuntimeError") /\ UNCHANGED <<pos, pool_address>>
    ELSE IF PositionDecodeRaises(eth_call_value(reply))
    THEN Raise("ValueError") /\ UNCHANGED <<pos, pool_address>>
    ELSE GotPosition(PositionRecord(eth_call_value(reply)))

RecvPositions ==
    /\ pc = "await_positions"
    /\ \E reply \in SingleReplies(sent[Answered].calls[1]) :
          /\ ReadPositionNft(reply)
          /\ answers' = Append(answers, SingleAnswer(reply))
          /\ eval_blocks' = IF SingleEvaluated(reply)
                            THEN eval_blocks \cup {head} ELSE eval_blocks
    /\ UNCHANGED <<position_id, pool_arg, head, block_number,
                   batch_results, pool_state, tick_batch, batchVars, feeVars, otherVars>>

\* A variant that never reports a missing pool.
PoolNotFoundNever(pool) == FALSE

\* line 484: the factory returned the zero address
PoolNotFound(pool) == pool = ZeroAddress

\* lines 163-189 and 467-489: _resolve_pool_address, then the batch
RecvGetPool ==
    /\ pc = "await_getPool"
    /\ \E reply \in SingleReplies(sent[Answered].calls[1]) :
          /\ IF eth_call_raises(reply)
             THEN Raise("RuntimeError") /\ pool_address' = pool_address
             ELSE LET pool == decode_address(eth_call_value(reply), 0)
                  IN  IF PoolNotFound(pool)
                      THEN Raise("RuntimeError: Pool not found")
                           /\ pool_address' = pool_address
                      ELSE /\ pool_address' = <<pool>>
                           /\ pc' = "await_batch"
                           /\ error' = error
                           /\ snapshot' = snapshot
                           /\ Post({Answered},
                                   Step4Requests(batch_calls(pool, pos[1])))
          /\ answers' = Append(answers,
                IF reply = SingleReply("result", Words(<<ZeroAddress>>))
                THEN [kind |-> "zero", n |-> 1] ELSE SingleAnswer(reply))
          /\ eval_blocks' = IF SingleEvaluated(reply)
                            THEN eval_blocks \cup {head} ELSE eval_blocks
    /\ UNCHANGED <<position_id, pool_arg, head, block_number, pos,
                   batch_results, pool_state, tick_batch, batchVars, feeVars, otherVars>>

\* lines 200-235 once batch_results is complete: index and decode the eight
\* entries, then post the batch of the two ticks() calls
ParseAndReadTicks(br) ==
    IF ParseRaises(br)
    THEN /\ Raise(IF Len(br) < 8 THEN "IndexError" ELSE "ValueError")
         /\ pool_state' = pool_state
    ELSE /\ pool_state' = <<PoolState(br)>>
         /\ pc' = "await_ticks"
         /\ error' = error
         /\ snapshot' = snapshot
         /\ Post({Answered},
                 <<EthCallBatchRequest(tick_calls(pool_address[1], pos[1]))>>)

\* lines 188-192: the batch returned, or it raised and the sequential
\* fallback starts with the first call
RecvBatch ==
    /\ pc = "await_batch"
    /\ \E reply \in ReadBatchReplies(sent[Answered].calls) :
          /\ answers' = Append(answers, BatchAnswer(reply))
          /\ eval_blocks' = IF BatchEvaluated(reply)
                            THEN eval_blocks \cup {head} ELSE eval_blocks
          /\ IF reply.kind = "raise"
             THEN /\ batch_results' = <<>>
                  /\ pc' = "await_seq"
                  /\ Post({Answered},
                          <<EthCallRequest(batch_calls(pool_address[1], pos[1])[1])>>)
                  /\ UNCHANGED <<pool_state, error, snapshot>>
             ELSE /\ batch_results' = BatchResults(reply)
                  /\ ParseAndReadTicks(BatchResults(reply))
    /\ UNCHANGED <<position_id, pool_arg, head, block_number, pos, pool_address,
                   tick_batch, batchVars, feeVars, otherVars>>

\* lines 193-198: one call of the sequential fallback returned or raised
RecvSeq ==
    /\ pc = "await_seq"
    /\ LET cs == batch_calls(pool_address[1], pos[1])
           i == Len(batch_results) + 1
       IN  \E reply \in SingleReplies(cs[i]) :
              LET r == IF eth_call_raises(reply) THEN EmptyPayload
                       ELSE eth_call_value(reply)
                  br == Append(batch_results, r)
              IN  /\ batch_results' = br
                  /\ answers' = Append(answers, SingleAnswer(reply))
                  /\ eval_blocks' = IF SingleEvaluated(reply)
                                    THEN eval_blocks \cup {head} ELSE eval_blocks
                  /\ IF i < Len(cs)
                     THEN /\ pc' = pc
                          /\ Post({Answered}, <<EthCallRequest(cs[i + 1])>>)
                          /\ UNCHANGED <<pool_state, error, snapshot>>
                     ELSE ParseAndReadTicks(br)
    /\ UNCHANGED <<position_id, pool_arg, head, block_number, pos, pool_address,
                   tick_batch, batchVars, feeVars, otherVars>>

\* lines 247-434: tick_batch[0] and tick_batch[1] are read (IndexError when
\* the list is shorter), the snapshot is computed and returned
Finish(tb) ==
    IF Len(tb) < 2
    THEN Raise("IndexError")
    ELSE /\ pc' = "returned"
         /\ error' = error
         /\ sent' = sent
         /\ pending' = pending \ {Answered}
         /\ snapshot' = <<Snapshot(position_id, block_number[1], pool_address[1],
                                   pos[1], pool_state[1], tb)>>

\* lines 231-237: the ticks batch returned, or it raised and the first tick
\* is called alone
RecvTicks ==
    /\ pc = "await_ticks"
    /\ \E reply \in ReadBatchReplies(sent[Answered].calls) :
          /\ answers' = Append(answers, BatchAnswer(reply))
          /\ eval_blocks' = IF BatchEvaluated(reply)
                            THEN eval_blocks \cup {head} ELSE eval_blocks
          /\ IF reply.kind = "raise"
             THEN /\ tick_batch' = <<EmptyPayload, EmptyPayload>>
                  /\ pc' = "await_tick_lower"
                  /\ Post({Answered},
                          <<EthCallRequest(tick_calls(pool_address[1], pos[1])[1])>>)
                  /\ UNCHANGED <<error, snapshot>>
             ELSE /\ tick_batch' = BatchResults(reply)
                  /\ Finish(BatchResults(reply))
    /\ UNCHANGED <<position_id, pool_arg, head, block_number, pos, pool_address,
                   batch_results, pool_state, batchVars, feeVars, otherVars>>

\* lines 238-241: the lower tick's single call returned or raised
RecvTickLower ==
    /\ pc = "await_tick_lower"
    /\ LET cs == tick_calls(pool_address[1], pos[1])
       IN  \E reply \in SingleReplies(cs[1]) :
              /\ tick_batch' = IF eth_call_raises(reply) THEN tick_batch
                               ELSE [tick_batch EXCEPT ![1] = eth_call_value(reply)]
              /\ answers' = Append(answers, SingleAnswer(reply))
              /\ eval_blocks' = IF SingleEvaluated(reply)
                                THEN eval_blocks \cup {head} ELSE eval_blocks
              /\ pc' = "await_tick_upper"
              /\ Post({Answered}, <<EthCallRequest(cs[2])>>)
    /\ UNCHANGED <<position_id, pool_arg, head, block_number, pos, pool_address,
                   batch_results, pool_state, snapshot, error,
                   batchVars, feeVars, otherVars>>

\* lines 242-434: the upper tick's single call returned or raised; the
\* snapshot is computed and returned
RecvTickUpper ==
    /\ pc = "await_tick_upper"
    /\ LET cs == tick_calls(pool_address[1], pos[1])
       IN  \E reply \in SingleReplies(cs[2]) :
              LET tb == IF eth_call_raises(reply) THEN tick_batch
                        ELSE [tick_batch EXCEPT ![2] = eth_call_value(reply)]
              IN  /\ tick_batch' = tb
                  /\ answers' = Append(answers, SingleAnswer(reply))
                  /\ eval_blocks' = IF SingleEvaluated(reply)
                                    THEN eval_blocks \cup {head} ELSE eval_blocks
                  /\ Finish(tb)
    /\ UNCHANGED <<position_id, pool_arg, head, block_number, pos, pool_address,
                   batch_results, pool_state, batchVars, feeVars, otherVars>>

\* The chain grows by a block while read_position is suspended on a request.
ChainAdvance ==
    /\ pc \notin {"start", "idle", "returned", "raised"}
    /\ head < MaxHead
    /\ head' = head + 1
    /\ UNCHANGED <<pc, position_id, pool_arg, sent, pending, block_number, pos,
                   pool_address, batch_results, pool_state, tick_batch, snapshot,
                   error, eval_blocks, answers, batchVars, feeVars, otherVars>>

\* The locals of read_position before its first statement.
ReadLocalsInit ==
    /\ head = 1
    /\ sent = <<>>
    /\ pending = {}
    /\ block_number = <<>>
    /\ pos = <<>>
    /\ pool_address = <<>>
    /\ batch_results = <<>>
    /\ pool_state = <<>>
    /\ tick_batch = <<>>
    /\ snapshot = <<>>
    /\ error = ""
    /\ eval_blocks = {}
    /\ answers = <<>>

\* No read_position is running.
ReadIdle ==
    /\ pc = "idle"
    /\ position_id = 1
    /\ pool_arg = <<>>
    /\ ReadLocalsInit

\* read_position(position_id, pool_address) is called.
ReadInit ==
    /\ pc = "start"
    /\ position_id \in {-1, 1, 2, 3}
    /\ pool_arg \in {<<>>, <<Pool>>}
    /\ ReadLocalsInit

\* ------------------------------------------- calls of rpc_helpers functions

\* The outcome of a call: it returned v, or it raised e.
Returned(v) == [raised |-> "", value |-> <<v>>]
Raised(e) == [raised |-> e, value |-> <<>>]

\* Responses to one eth_call: with an "error" member (with or without a
\* "result" next to it), with neither, and with a "result" of 2, 3, 4 and
\* more characters.
EthCallReplies ==
    {SingleReply("transport", EmptyPayload),
     SingleReply("error", EmptyPayload),
     SingleReply("error", Words(<<5>>)),
     SingleReply("noresult", EmptyPayload)}
    \cup {SingleReply("result", [words |-> ws, tail |-> t]) :
             ws \in {<<>>, <<0>>, <<5>>, <<Q256 - 1, 0>>},
             t \in {<<>>, <<1>>, <<1, 2>>, <<NotHex, 3>>}}

\* lines 206-236: eth_call with the response reply
EthCall ==
    /\ c_pc = "called"
    /\ c_fn = "eth_call"
    /\ c_out' = IF eth_call_raises(c_arg) THEN Raised(eth_call_exception(c_arg))
                ELSE Returned(eth_call_value(c_arg))
    /\ c_pc' = IF eth_call_raises(c_arg) THEN "raised" ELSE "returned"
    /\ UNCHANGED <<c_fn, c_arg, detectVars, limiterVars,
                   batchVars, feeVars, readVars>>

\* ---- the encoders, character by character

\* A text is a sequence of characters: a hex digit 0..15, the minus sign, or
\* NotHex for any other character.
MinusSign == 16

\* The ABI_WORD_HEX characters of a word, for the scaled word.
WordHex == (WordBits + 3) \div 4

\* The characters of an address (40 of the 64 of a word), scaled alike.
AddressHex == WordHex - 1

IsHexText(cs) == \A i \in 1..Len(cs) : cs[i] \in 0..15

RECURSIVE HexDigits(_)
\* format(n, 'x') of n >= 0: its hex digits, no leading zero
HexDigits(n) ==
    IF n < 16 THEN <<n>> ELSE Append(HexDigits(n \div 16), n % 16)

RECURSIVE ZeroFill(_, _)
\* zero padding on the left up to width characters; a longer text is kept
ZeroFill(cs, width) ==
    IF Len(cs) >= width THEN cs ELSE ZeroFill(<<0>> \o cs, width)

\* A variant that forgets the padding: format(value, 'x').
format_hex_unpadded(value) ==
    IF value >= 0 THEN HexDigits(value)
    ELSE <<MinusSign>> \o HexDigits(-value)

\* format(value, f'0{ABI_WORD_HEX}x'): the sign, if any, comes first and
\* counts for the width
format_hex(value) ==
    IF value >= 0 THEN ZeroFill(HexDigits(value), WordHex)
    ELSE <<MinusSign>> \o ZeroFill(HexDigits(-value), WordHex - 1)

\* lines 107-113
encode_uint256(value) == format_hex(value)

\* lines 135-142: encode_int24 down to the text it returns
encode_int24_text(value) == format_hex(encode_int24(value))

\* lines 116-122: addr is [prefix, body], the text with and without "0x";
\* lower() changes no character's value
encode_address(addr) == ZeroFill(addr.body, WordHex)

\* The payload a text is: its complete words, each the number int(_, 16)
\* reads or NotHex, and the characters left over.
Payload(cs) ==
    LET n == Len(cs) \div WordHex
        chunk(i) == SubSeq(cs, (i - 1) * WordHex + 1, i * WordHex)
        rest == SubSeq(cs, n * WordHex + 1, Len(cs))
    IN  [words |-> [i \in 1..n |->
                      IF IsHexText(chunk(i)) THEN TailValue(chunk(i)) ELSE NotHex],
         tail |-> [i \in 1..Len(rest) |->
                      IF rest[i] \in 0..15 THEN rest[i] ELSE NotHex]]

\* hex_data[start:start + ABI_WORD_HEX] of a text
Slot(cs, slot) ==
    SubSeq(cs, slot * WordHex + 1,
           IF (slot + 1) * WordHex < Len(cs) THEN (slot + 1) * WordHex ELSE Len(cs))

\* int(cs, 16) raises ValueError: cs is empty, a bare sign, or holds a
\* character that is neither a hex digit nor a leading minus sign
int16_raises(cs) ==
    \/ Len(cs) = 0
    \/ cs[1] = MinusSign /\ (Len(cs) = 1 \/ ~IsHexText(Tail(cs)))
    \/ cs[1] # MinusSign /\ ~IsHexText(cs)

\* int(cs, 16)
int16(cs) == IF cs[1] = MinusSign THEN -TailValue(Tail(cs)) ELSE TailValue(cs)

\* lines 147-155 and 158-168 on a text: decode_uint and decode_int
decode_uint_text(cs, slot) == int16(Slot(cs, slot))

decode_int_text(cs, slot) ==
    LET val == decode_uint_text(cs, slot)
    IN  IF val >= SIGN_BIT THEN val - Q256 ELSE val

\* encode_uint256(value), encode_int24(value) or encode_address(addr)
Encode ==
    /\ c_pc = "called"
    /\ c_fn \in {"encode_uint256", "encode_int24", "encode_address"}
    /\ c_out' = Returned(CASE c_fn = "encode_uint256" -> encode_uint256(c_arg)
                           [] c_fn = "encode_int24" -> encode_int24_text(c_arg)
                           [] c_fn = "encode_address" -> encode_address(c_arg))
    /\ c_pc' = "returned"
    /\ UNCHANGED <<c_fn, c_arg, detectVars, limiterVars,
                   batchVars, feeVars, readVars>>

\* decode_uint(text, 0) of an encode_uint256 text, decode_int(text, 0) of an
\* encode_int24 text
Decode ==
    /\ c_pc = "returned"
    /\ c_fn \in {"encode_uint256", "encode_int24"}
    /\ LET text == c_out.value[1]
           raises == int16_raises(Slot(text, 0))
       IN  c_out' = [raised |-> IF raises THEN "ValueError" ELSE "",
                     value |-> c_out.value,
                     decoded |-> IF raises THEN <<>>
                                 ELSE IF c_fn = "encode_uint256"
                                 THEN <<decode_uint_text(text, 0)>>
                                 ELSE <<decode_int_text(text, 0)>>]
    /\ c_pc' = "decoded"
    /\ UNCHANGED <<c_fn, c_arg, detectVars, limiterVars,
                   batchVars, feeVars, readVars>>

\* Arguments: every word and some values outside the word's range; every
\* signed word and its neighbours; addresses of up to a character more than
\* a word, with and without prefix, with and without a character that is no
\* hex digit.
UintArgs == (0..(Q256 - 1)) \cup {-1, -Q256, Q256, Q256 + 1, 16 * Q256}

Int24Args == (-SIGN_BIT - 1)..SIGN_BIT

AddressArgs ==
    {[prefix |-> pf, body |-> b] :
        pf \in BOOLEAN,
        b \in UNION {[1..n -> {0, 10, NotHex}] : n \in 0..(WordHex + 1)}}

\* ---------------------------------------------------------- decode_string

\* The bytes of one ABI word in the texts given to decode_string
\* (ABI_WORD_BYTES, scaled), and its characters (ABI_WORD_HEX, two a byte).
StrWordBytes == 1

StrWordHex == 2 * StrWordBytes

\* Most bytes of a text given to decode_string.
MaxStrBytes == 4

\* Python's cs[a:b]: a negative index counts from the end, and both are
\* clamped to the text.
PySlice(cs, a, b) ==
    LET n == Len(cs)
        clamp(k) == IF k < 0 THEN (IF k + n < 0 THEN 0 ELSE k + n)
                    ELSE IF k > n THEN n ELSE k
    IN  IF clamp(a) >= clamp(b) THEN <<>> ELSE SubSeq(cs, clamp(a) + 1, clamp(b))

\* lines 153-155: hex_data[start:start + ABI_WORD_HEX] for any slot
StrSlot(cs, slot) == PySlice(cs, slot * StrWordHex, slot * StrWordHex + StrWordHex)

\* bytes.fromhex(cs) raises ValueError: an odd number of characters, or a
\* character that is no hex digit
fromhex_raises(cs) == Len(cs) % 2 = 1 \/ ~IsHexText(cs)

\* bytes.fromhex(cs)
fromhex(cs) == [i \in 1..(Len(cs) \div 2) |-> 16 * cs[2 * i - 1] + cs[2 * i]]

\* The length of the UTF-8 sequence a byte starts; 0 when it starts none.
Utf8Len(b) ==
    IF b < 128 THEN 1
    ELSE IF b \in 194..223 THEN 2
    ELSE IF b \in 224..239 THEN 3
    ELSE IF b \in 240..244 THEN 4
    ELSE 0

\* bs starts with a well-formed UTF-8 sequence.
Utf8Head(bs) ==
    LET n == Utf8Len(bs[1])
    IN  /\ n > 0
        /\ Len(bs) >= n
        /\ \A i \in 2..n : bs[i] \in 128..191
        /\ bs[1] = 224 => bs[2] >= 160
        /\ bs[1] = 237 => bs[2] <= 159
        /\ bs[1] = 240 => bs[2] >= 144
        /\ bs[1] = 244 => bs[2] <= 143

\* The code point of the sequence bs starts with.
Utf8Point(bs) ==
    CASE Utf8Len(bs[1]) = 1 -> bs[1]
      [] Utf8Len(bs[1]) = 2 -> (bs[1] - 192) * 64 + (bs[2] - 128)
      [] Utf8Len(bs[1]) = 3 ->
            (bs[1] - 224) * 4096 + (bs[2] - 128) * 64 + (bs[3] - 128)
      [] Utf8Len(bs[1]) = 4 ->
            (bs[1] - 240) * 262144 + (bs[2] - 128) * 4096
               + (bs[3] - 128) * 64 + (bs[4] - 128)

RECURSIVE utf8_raises(_)
\* bs.decode("utf-8") raises UnicodeDecodeError
utf8_raises(bs) ==
    IF bs = <<>> THEN FALSE
    ELSE \/ ~Utf8Head(bs)
         \/ utf8_raises(SubSeq(bs, Utf8Len(bs[1]) + 1, Len(bs)))

RECURSIVE utf8_decode(_)
\* bs.decode("utf-8"): the code points of the text
utf8_decode(bs) ==
    IF bs = <<>> THEN <<>>
    ELSE <<Utf8Point(bs)>> \o utf8_decode(SubSeq(bs, Utf8Len(bs[1]) + 1, Len(bs)))

\* The characters str.strip() removes, and the one strip("\x00") removes.
Whitespace ==
    (9..13) \cup (28..32) \cup {133, 160, 5760, 8232, 8233, 8239, 8287, 12288}
    \cup (8192..8202)

Nul == {0}

RECURSIVE strip(_, _)
\* text.strip(chars)
strip(text, chars) ==
    IF text = <<>> THEN <<>>
    ELSE IF text[1] \in chars THEN strip(Tail(text), chars)
    ELSE IF text[Len(text)] \in chars
    THEN strip(SubSeq(text, 1, Len(text) - 1), chars)
    ELSE text

\* lines 189-193: the slice of the text the offset and length words name;
\* the offset word and the length word behind it are read with int(_, 16)
layout_offset(cs) == int16(StrSlot(cs, 0)) \div StrWordBytes

layout_hex(cs) ==
    LET word_offset == layout_offset(cs)
        length == int16(StrSlot(cs, word_offset))
        start_byte == (word_offset + 1) * StrWordHex
    IN  PySlice(cs, start_byte, start_byte + length * 2)

\* lines 188-194: the outer try block raises
layout_raises(cs) ==
    \/ int16_raises(StrSlot(cs, 0))
    \/ int16_raises(StrSlot(cs, layout_offset(cs)))
    \/ fromhex_raises(layout_hex(cs))
    \/ utf8_raises(fromhex(layout_hex(cs)))

\* line 194: what the outer try block returns
layout_text(cs) == strip(utf8_decode(fromhex(layout_hex(cs))), Nul)

\* lines 197-199: the inner try block on the first word raises
bytes32_raises(cs) ==
    \/ fromhex_raises(PySlice(cs, 0, StrWordHex))
    \/ utf8_raises(fromhex(PySlice(cs, 0, StrWordHex)))

\* line 199: what the inner try block returns
bytes32_text(cs) ==
    strip(strip(utf8_decode(fromhex(PySlice(cs, 0, StrWordHex))), Nul), Whitespace)

\* line 201: the sentinel "UNK"
UNK == <<85, 78, 75>>

\* A variant without the inner handler: the fallback's exception escapes.
decode_string_text_unguarded(cs) ==
    IF ~layout_raises(cs) THEN Returned(layout_text(cs))
    ELSE IF ~bytes32_raises(cs) THEN Returned(bytes32_text(cs))
    ELSE Raised("ValueError")

\* lines 182-201, character by character
decode_string_text(cs) ==
    IF ~layout_raises(cs) THEN Returned(layout_text(cs))
    ELSE IF ~bytes32_raises(cs) THEN Returned(bytes32_text(cs))
    ELSE Returned(UNK)

\* decode_string(hex_data)
DecodeString ==
    /\ c_pc = "called"
    /\ c_fn = "decode_string"
    /\ c_out' = decode_string_text(c_arg)
    /\ c_pc' = IF decode_string_text(c_arg).raised = "" THEN "returned" ELSE "raised"
    /\ UNCHANGED <<c_fn, c_arg, detectVars, limiterVars,
                   batchVars, feeVars, readVars>>

\* The bytes the texts are made of, two characters each: 00, 01, 02, a
\* space, "A", the lead byte C3, the continuation byte 80, a character that
\* is no hex digit, and a minus sign.
StringPieces ==
    {<<0, 0>>, <<0, 1>>, <<0, 2>>, <<2, 0>>, <<4, 1>>, <<12, 3>>, <<8, 0>>,
     <<NotHex, 0>>, <<MinusSign, 2>>}

RECURSIVE Flatten(_)
Flatten(ps) == IF ps = <<>> THEN <<>> ELSE Head(ps) \o Flatten(Tail(ps))

\* Texts of up to MaxStrBytes bytes, with or without a dangling character.
StringTexts ==
    {Flatten(ps) \o odd :
        ps \in UNION {[1..n -> StringPieces] : n \in 0..MaxStrBytes},
        odd \in {<<>>, <<4>>}}

\* The calls made in SpecCalls.
Calls ==
    {<<"eth_call", r>> : r \in EthCallReplies}
    \cup {<<"encode_uint256", x>> : x \in UintArgs}
    \cup {<<"encode_int24", t>> : t \in Int24Args}
    \cup {<<"encode_address", a>> : a \in AddressArgs}
    \cup {<<"decode_string", cs>> : cs \in StringTexts}

\* ------------------------------------------------ _detect_position_network

\* Most candidate networks of one detection.
MaxNetworks == 3

\* list(RPC_URLS.keys())
NetworkNames == <<"arbitrum", "ethereum", "polygon", "base", "optimism", "bsc">>

\* positions(tokenId) answered with the 12 words of a record whose token
\* addresses are t0 and t1.
PositionsOf(t0, t1) ==
    Words(<<0, 0, t0, t1, 500, encode_int24(-1), encode_int24(1), 3, 0, 0, 5, 7>>)

\* What a candidate network's node may answer to positions(tokenId): no
\* answer, an error, no result, "0x", a payload cut after three words, and
\* records with none, one or both token addresses zero.
DetectReplies ==
    {SingleReply("transport", EmptyPayload),
     SingleReply("error", EmptyPayload),
     SingleReply("noresult", EmptyPayload),
     SingleReply("result", EmptyPayload),
     SingleReply("result", Words(<<0, 0, Token0>>)),
     SingleReply("result", PositionsOf(ZeroAddress, ZeroAddress)),
     SingleReply("result", PositionsOf(Token0, Token1)),
     SingleReply("result", PositionsOf(Token0, ZeroAddress)),
     SingleReply("result", PositionsOf(ZeroAddress, Token1))}

\* lines 311-320: what _try_network(net) returns once positions() is
\* answered with reply: <<net>>, or <<>> for None
try_network(net, reply) ==
    IF eth_call_raises(reply) \/ PositionDecodeRaises(eth_call_value(reply))
    THEN <<>>
    ELSE IF PositionRecord(eth_call_value(reply)).token0 # ZeroAddress
    THEN <<net>>
    ELSE <<>>

RECURSIVE FirstResult(_)
\* lines 324-327: the first result of the list that is not None
FirstResult(results) ==
    IF Len(results) = 0 THEN <<>>
    ELSE IF results[1] # <<>> THEN results[1]
    ELSE FirstResult(Tail(results))

\* The coroutine _try_network(net), not yet scheduled.
NewTask(net) == [net |-> net, pc |-> "created", reply |-> <<>>, result |-> <<>>]

\* lines 322-323: the coroutines are built and gather() makes a task of each
DetectGather ==
    /\ d_pc = "start"
    /\ d_pc' = "gather"
    /\ d_tasks' = [i \in 1..Len(d_tasks) |-> [d_tasks[i] EXCEPT !.pc = "launched"]]
    /\ UNCHANGED <<d_out, callVars, limiterVars, batchVars, feeVars, readVars>>

\* lines 313-314: task i builds its reader and posts positions(tokenId)
TaskPost(i) ==
    /\ d_pc = "gather"
    /\ d_tasks[i].pc = "launched"
    /\ d_tasks' = [d_tasks EXCEPT ![i].pc = "posted"]
    /\ UNCHANGED <<d_pc, d_out, callVars, limiterVars, batchVars, feeVars, readVars>>

\* lines 314-320: task i is resumed with the answer and returns
TaskRecv(i) ==
    /\ d_pc = "gather"
    /\ d_tasks[i].pc = "posted"
    /\ \E reply \in DetectReplies :
          d_tasks' = [d_tasks EXCEPT ![i].pc = "done",
                                     ![i].reply = <<reply>>,
                                     ![i].result = try_network(d_tasks[i].net, reply)]
    /\ UNCHANGED <<d_pc, d_out, callVars, limiterVars, batchVars, feeVars, readVars>>

\* lines 323-327: gather() returns once every task is done
DetectReturn ==
    /\ d_pc = "gather"
    /\ \A i \in 1..Len(d_tasks) : d_tasks[i].pc = "done"
    /\ d_out' = <<FirstResult([i \in 1..Len(d_tasks) |-> d_tasks[i].result])>>
    /\ d_pc' = "returned"
    /\ UNCHANGED <<d_tasks, callVars, limiterVars, batchVars, feeVars, readVars>>

\* ------------------------------------------------------------ _RateLimiter

\* max_requests and period_seconds of the limiter, the period in ticks of
\* the clock; one tick is the 0.1 s that acquire() adds to its sleep.
MaxRequests == 2
PeriodTicks == 3
SleepMargin == 1
\* Number of tasks that share the limiter, each calling acquire() once.
LimiterTasks == 4
\* Latest time at which a task calls acquire().
LastCall == 3
\* The clock stops once every sleep that can have begun is over.
EndOfTime == LastCall + PeriodTicks + SleepMargin

\* line 42: the timestamps inside the current window
Purged(ts, now) == SelectSeq(ts, LAMBDA t : now - t < PeriodTicks)

\* line 45: sleep_time when the window is full
SleepTime(ts, now) == PeriodTicks - (now - ts[1]) + SleepMargin

\* A variant that suspends nobody: a full window is ignored.
MustSleepNever(ts, now) == FALSE

\* lines 43-46: the window is full and the sleep is a positive time
MustSleep(ts, now) == Len(ts) >= MaxRequests /\ SleepTime(ts, now) > 0

\* line 48: a timestamp is recorded and acquire() returns to task i
Grant(i, ts) ==
    /\ lim_timestamps' = Append(ts, lim_now)
    /\ lim_granted' = Append(lim_granted, [task |-> i, time |-> lim_now])

\* lines 39-48 up to the await: task i calls acquire()
AcquireCall(i) ==
    /\ lim_tasks[i].pc = "ready"
    /\ lim_now <= LastCall
    /\ LET ts == Purged(lim_timestamps, lim_now)
       IN  IF MustSleep(ts, lim_now)
           THEN /\ lim_tasks' = [lim_tasks EXCEPT
                                   ![i] = [pc |-> "sleeping",
                                           wake |-> lim_now + SleepTime(ts, lim_now)]]
                /\ lim_timestamps' = ts
                /\ lim_granted' = lim_granted
           ELSE /\ lim_tasks' = [lim_tasks EXCEPT ![i].pc = "done"]
                /\ Grant(i, ts)
    /\ UNCHANGED <<lim_now, callVars, detectVars, batchVars, feeVars, readVars>>

\* lines 47-48: asyncio.sleep is over, task i is resumed
AcquireWake(i) ==
    /\ lim_tasks[i].pc = "sleeping"
    /\ lim_now >= lim_tasks[i].wake
    /\ lim_tasks' = [lim_tasks EXCEPT ![i].pc = "done"]
    /\ Grant(i, lim_timestamps)
    /\ UNCHANGED <<lim_now, callVars, detectVars, batchVars, feeVars, readVars>>

\* time.monotonic() advances
Tick ==
    /\ lim_tasks # <<>>
    /\ lim_now < EndOfTime
    /\ lim_now' = lim_now + 1
    /\ UNCHANGED <<lim_timestamps, lim_tasks, lim_granted,
                   callVars, detectVars, batchVars, feeVars, readVars>>

BatchInit ==
    /\ b_pc = "idle"
    /\ b_n = 0
    /\ b_payloads = <<>>
    /\ b_reply = NoReply
    /\ b_out = <<>>

FeeIdle ==
    /\ f_pc = "idle"
    /\ f_in = <<>>
    /\ f_out = <<>>

\* No function call, no network detection and no limiter in use.
CallIdle ==
    /\ c_pc = "idle"
    /\ c_fn = ""
    /\ c_arg = <<>>
    /\ c_out = <<>>

DetectIdle ==
    /\ d_pc = "idle"
    /\ d_tasks = <<>>
    /\ d_out = <<>>

\* _RateLimiter.__init__: no timestamp yet
LimiterIdle ==
    /\ lim_now = 0
    /\ lim_timestamps = <<>>
    /\ lim_tasks = <<>>
    /\ lim_granted = <<>>

OtherIdle == CallIdle /\ DetectIdle /\ LimiterIdle

vars == <<batchVars, feeVars, readVars, otherVars>>

InitBatch == BatchInit /\ FeeIdle /\ ReadIdle /\ OtherIdle

NextBatch == BatchRequest \/ BatchRespond \/ BatchReturn

SpecBatch == InitBatch /\ [][NextBatch]_vars

InitFees ==
    /\ BatchInit
    /\ ReadIdle
    /\ f_pc = "idle"
    /\ f_in \in {<<a>> : a \in FeeInputs}
    /\ f_out = <<>>
    /\ OtherIdle

NextFees == ComputeFees

SpecFees == InitFees /\ [][NextFees]_vars

Init == BatchInit /\ FeeIdle /\ ReadInit /\ OtherIdle

Next ==
    \/ Start
    \/ RecvBlockNumber
    \/ RecvPositions
    \/ RecvGetPool
    \/ RecvBatch
    \/ RecvSeq
    \/ RecvTicks
    \/ RecvTickLower
    \/ RecvTickUpper
    \/ ChainAdvance

Spec == Init /\ [][Next]_vars

InitCalls ==
    /\ BatchInit /\ FeeIdle /\ ReadIdle /\ DetectIdle /\ LimiterIdle
    /\ c_pc = "called"
    /\ \E call \in Calls : c_fn = call[1] /\ c_arg = call[2]
    /\ c_out = <<>>

NextCalls == EthCall \/ Encode \/ Decode \/ DecodeString

SpecCalls == InitCalls /\ [][NextCalls]_vars

\* _detect_position_network(position_id, dex_slug, networks) is called.
InitDetect ==
    /\ BatchInit /\ FeeIdle /\ ReadIdle /\ CallIdle /\ LimiterIdle
    /\ d_pc = "start"
    /\ \E n \in 1..MaxNetworks :
          d_tasks = [i \in 1..n |-> NewTask(NetworkNames[i])]
    /\ d_out = <<>>

\* The event loop runs one of the tasks.
TaskPosts == \E i \in 1..Len(d_tasks) : TaskPost(i)

TaskRecvs == \E i \in 1..Len(d_tasks) : TaskRecv(i)

NextDetect == DetectGather \/ TaskPosts \/ TaskRecvs \/ DetectReturn

SpecDetect == InitDetect /\ [][NextDetect]_vars

\* A fresh limiter and the tasks about to call acquire().
InitLimiter ==
    /\ BatchInit /\ FeeIdle /\ ReadIdle /\ CallIdle /\ DetectIdle
    /\ lim_now = 0
    /\ lim_timestamps = <<>>
    /\ lim_tasks = [i \in 1..LimiterTasks |-> [pc |-> "ready", wake |-> 0]]
    /\ lim_granted = <<>>

AcquireCalls == \E i \in 1..Len(lim_tasks) : AcquireCall(i)

AcquireWakes == \E i \in 1..Len(lim_tasks) : AcquireWake(i)

NextLimiter == AcquireCalls \/ AcquireWakes \/ Tick

SpecLimiter == InitLimiter /\ [][NextLimiter]_vars

\* The event loop keeps running: the clock advances and a task whose sleep
\* is over is resumed.
SpecLimiterFair ==
    /\ SpecLimiter
    /\ WF_vars(Tick)
    /\ \A i \in 1..LimiterTasks : WF_vars(AcquireWake(i))

\* ----------------------------------------------------------------- properties

\* The reply answers every call exactly once, each answer carrying its id.
ReplyIsPermutation ==
    /\ b_reply.kind = "list"
    /\ Len(b_reply.items) = b_n
    /\ \A i \in 1..b_n : b_reply.items[i].has_id
    /\ \A c \in 1..b_n : \E i \in 1..b_n : b_reply.items[i].id = c

\* C1: when the server answers a batch of N calls with N response objects
\* carrying the ids 1..N in any order, eth_call_batch returns N payloads and
\* the i-th is the result of the i-th submitted call (the empty string when
\* the node answered that call with an error).
C1_RequestOrder ==
    (b_pc = "returned" /\ ReplyIsPermutation) =>
        /\ Len(b_out) = b_n
        /\ \A i \in 1..b_n :
              \E j \in 1..b_n :
                 /\ b_reply.items[j].call = i
                 /\ b_out[i] = Extract(b_reply.items[j])
                 /\ b_reply.items[j].has_result => b_out[i] = ResultOf(i)

\* An out-of-order reply with every result present has been returned.
C1_Witness ==
    /\ b_pc = "returned"
    /\ ReplyIsPermutation
    /\ b_n >= 2
    /\ b_reply.items[1].id = b_n
    /\ \A i \in 1..b_n : b_reply.items[i].has_result

\* (a - b) mod 2^256 for words a and b, as the specification states it.
C6_SubMod(x, y) == IF x >= y THEN x - y ELSE x - y + Q256

IsWord(x) == x \in 0..(Q256 - 1)

C6_TokenOk(tick, lo, hi, liq, g, ol, ou, last, owed, below, above, inside, raw) ==
    /\ below = (IF tick >= lo THEN ol ELSE C6_SubMod(g, ol))
    /\ above = (IF tick < hi THEN ou ELSE C6_SubMod(g, ou))
    /\ inside = C6_SubMod(C6_SubMod(g, below), above)
    /\ raw = (liq * C6_SubMod(inside, last)) \div Q128 + owed
    /\ IsWord(below) /\ IsWord(above) /\ IsWord(inside)
    /\ raw >= 0
    /\ (g = 1000 /\ ol = 0 /\ ou = 0 /\ lo <= tick /\ tick < hi) => inside = 1000

\* C6: for unsigned word inputs _compute_fees computes, per token,
\* below = outsideLower if currentTick >= tickLower else (global - outsideLower)
\* mod 2^256, above = outsideUpper if currentTick < tickUpper else
\* (global - outsideUpper) mod 2^256, feeGrowthInside = (global - below - above)
\* mod 2^256 and raw fee = (liquidity * ((feeGrowthInside - insideLast) mod
\* 2^256)) div 2^128 + tokensOwed; every intermediate is a word, the fee is
\* never negative, and with global = 1000, both outside values 0 and the tick
\* in range feeGrowthInside is 1000.
C6_FeeGrowthInside ==
    (f_pc = "returned" /\ f_out[1].locals # <<>>) =>
        LET a == f_in[1]
            l == f_out[1].locals[1]
        IN  /\ C6_TokenOk(a.current_tick, a.pos.tickLower, a.pos.tickUpper,
                          a.pos.liquidity, a.fg0_global,
                          l.fg0_outside_lower, l.fg0_outside_upper,
                          a.pos.feeGrowthInside0LastX128, a.pos.tokensOwed0,
                          l.fg0_below, l.fg0_above, l.fg0_inside, l.fees0_raw)
            /\ C6_TokenOk(a.current_tick, a.pos.tickLower, a.pos.tickUpper,
                          a.pos.liquidity, a.fg1_global,
                          l.fg1_outside_lower, l.fg1_outside_upper,
                          a.pos.feeGrowthInside1LastX128, a.pos.tokensOwed1,
                          l.fg1_below, l.fg1_above, l.fg1_inside, l.fees1_raw)
            /\ f_out[1].fees0 = Scaled(l.fees0_raw, a.decimals0)
            /\ f_out[1].fees1 = Scaled(l.fees1_raw, a.decimals1)
            /\ l.fg0_outside_lower = a.tick_lower_data.words[3]
            /\ l.fg0_outside_upper = a.tick_upper_data.words[3]

\* A run in which the subtraction wrapped: the tick is below the range and
\* the global accumulator is smaller than the lower boundary's outside value.
C6_Witness ==
    /\ f_pc = "returned"
    /\ f_out[1].locals # <<>>
    /\ f_in[1].tick_lower_data = TickPayload("full", Q256 - 1, 0)
    /\ f_in[1].tick_upper_data = TickPayload("full", 1000, 0)
    /\ f_in[1].current_tick < f_in[1].pos.tickLower
    /\ f_in[1].fg0_global = 0
    /\ f_in[1].pos.liquidity = Q128
    /\ f_out[1].locals[1].fg0_below = 1
    /\ f_out[1].locals[1].fg0_inside = Q256 - 1001

\* A tick payload that is empty, shorter than four words, or with a
\* character that is no hex digit.
C7_BadPayload(p) ==
    \/ ~Truthy(p)
    \/ Len(p.words) < 4
    \/ \E i \in 1..Len(p.words) : p.words[i] = NotHex
    \/ \E i \in 1..Len(p.tail) : p.tail[i] = NotHex

\* C7: for any tick-boundary payloads that are empty, shorter than four
\* 32-byte words, or not hex, _compute_fees returns exactly
\* tokensOwed0 / 10^decimals0 and tokensOwed1 / 10^decimals1.
C7_FallbackOnBadPayload ==
    (f_pc = "returned" /\
       (C7_BadPayload(f_in[1].tick_lower_data) \/ C7_BadPayload(f_in[1].tick_upper_data))) =>
        /\ f_out[1].fees0 = Scaled(f_in[1].pos.tokensOwed0, f_in[1].decimals0)
        /\ f_out[1].fees1 = Scaled(f_in[1].pos.tokensOwed1, f_in[1].decimals1)

\* The calls read_position has issued as single eth_call requests.
SinglesSent ==
    {sent[i].calls[1] : i \in {j \in 1..Len(sent) :
                                  sent[j].method = "eth_call" /\ ~sent[j].batch}}

\* The batched requests of sent that have been answered.
AnsweredBatches == {i \in 1..Len(answers) : sent[i].batch}

\* The batch did not deliver: it raised, or it returned another number of
\* results than calls (a shorter array, a single object).
BatchFailed(i) ==
    \/ answers[i].kind = "raise"
    \/ answers[i].kind = "single" /\ Len(sent[i].calls) # 1
    \/ answers[i].kind = "list" /\ answers[i].n # Len(sent[i].calls)

\* C2: whenever the batched request of step (4) or step (5) fails -- the
\* batch call raises, or it does not deliver one result per call, as an
\* endpoint without batch support does that answers with a single object --
\* every call of that batch has been retried as a single eth_call by the time
\* read_position fails.
C2_FallbackBeforeFailure ==
    pc = "raised" =>
        \A i \in AnsweredBatches :
            BatchFailed(i) =>
                \A k \in 1..Len(sent[i].calls) : sent[i].calls[k] \in SinglesSent

\* The calls whose single eth_call raised.
FailedSingles ==
    {sent[i].calls[1] : i \in {j \in 1..Len(answers) :
                                  ~sent[j].batch /\ sent[j].method = "eth_call"
                                  /\ answers[j].kind = "failed"}}

Step4Selectors ==
    {"slot0", "liquidity", "feeGrowthGlobal0X128", "feeGrowthGlobal1X128",
     "decimals", "symbol"}

\* C3: if a call of step (4) still fails after the sequential fallback,
\* read_position propagates an error: it never returns a snapshot (which
\* would be computed from the placeholder of that call).
C3_FatalAfterFallback ==
    pc = "returned" => \A c \in FailedSingles : c.selector \notin Step4Selectors

\* C4: all eth_call requests of one read_position are evaluated at the block
\* height captured at its start, the audit trail's block_number.
C4_SingleBlock ==
    (pc = "returned" /\ snapshot[1].audit_trail.block_number # 0) =>
        eval_blocks \subseteq {snapshot[1].audit_trail.block_number}

\* C5: the audit trail of a snapshot has a raw-call entry for every eth_call
\* that read_position issued to produce it.
C5_AuditTrailComplete ==
    pc = "returned" =>
        \A i \in 1..Len(sent) :
            \A k \in 1..Len(sent[i].calls) :
                \E e \in 1..Len(snapshot[1].audit_trail.raw_calls) :
                    snapshot[1].audit_trail.raw_calls[e].call = sent[i].calls[k]

\* C8: if the positions(tokenId) call fails (error envelope, empty result or
\* transport failure), read_position raises, returns no snapshot, and the
\* positions request stays the last request it has sent.
C8_PositionsFailureAborts ==
    (Len(answers) >= 2 /\ answers[2].kind = "failed") =>
        /\ pc = "raised"
        /\ error # ""
        /\ snapshot = <<>>
        /\ Len(sent) = 2
        /\ pending = {}

C8_Witness ==
    /\ Len(answers) = 2
    /\ answers[2].kind = "failed"
    /\ sent[2].calls[1].selector = "positions"
    /\ pc = "raised"

\* The selectors of the pool-state, token-metadata and tick calls.
PoolAndTickSelectors == Step4Selectors \cup {"ticks"}

\* C9: when no pool address is supplied and getPool returns the zero
\* address, read_position fails with the pool-not-found error and no
\* pool-state, token-metadata or tick call is issued.
C9_PoolNotFound ==
    (\E i \in 1..Len(answers) : answers[i].kind = "zero") =>
        /\ pool_arg = <<>>
        /\ pc = "raised"
        /\ error = "RuntimeError: Pool not found"
        /\ snapshot = <<>>
        /\ \A i \in 1..Len(sent) :
              \A k \in 1..Len(sent[i].calls) :
                 sent[i].calls[k].selector \notin PoolAndTickSelectors

C9_Witness ==
    /\ Len(answers) = 3
    /\ answers[3].kind = "zero"
    /\ sent[3].calls[1].selector = "getPool"
    /\ pc = "raised"

\* The step of read_position a request belongs to.
StepOf(r) ==
    IF r.method = "eth_blockNumber" THEN 1
    ELSE IF r.calls[1].selector = "positions" THEN 2
    ELSE IF r.calls[1].selector = "getPool" THEN 3
    ELSE IF r.calls[1].selector \in Step4Selectors THEN 4
    ELSE 5

\* C10: within one read_position the requests are strictly sequenced:
\* block-number query, positions(tokenId), Factory.getPool (only when no pool
\* address was supplied), the pool/token batch, the ticks batch; each request
\* is sent only after the previous one was answered, and the eight pool/token
\* calls are sent together in one request (the two ticks calls in another).
C10_StrictSequence ==
    /\ Cardinality(pending) <= 1
    /\ Len(sent) <= Len(answers) + 1
    /\ \A i \in 1..(Len(sent) - 1) :
          /\ StepOf(sent[i]) <= StepOf(sent[i + 1])
          /\ StepOf(sent[i]) \in {1, 2, 3} =>
                StepOf(sent[i]) < StepOf(sent[i + 1])
    /\ Len(sent) >= 1 => StepOf(sent[1]) = 1
    /\ Len(sent) >= 2 => StepOf(sent[2]) = 2
    /\ Len(sent) >= 3 => (StepOf(sent[3]) = 3 <=> pool_arg = <<>>)
    /\ \A i \in 2..Len(sent) :
          (StepOf(sent[i]) \in {4, 5} /\ StepOf(sent[i - 1]) < StepOf(sent[i])) =>
             /\ sent[i].batch
             /\ Len(sent[i].calls) = (IF StepOf(sent[i]) = 4 THEN 8 ELSE 2)
             /\ \A k \in 1..Len(sent[i].calls) :
                   StepOf(EthCallRequest(sent[i].calls[k])) = StepOf(sent[i])

\* A run through all five steps, the pool resolved through the factory.
C10_Witness ==
    /\ pc = "returned"
    /\ pool_arg = <<>>
    /\ Len(sent) = 5
    /\ head > 1

\* C11: when the node is unreachable or answers the block-number query with
\* an error, the query yields 0 and read_position goes on: it does not raise
\* at that step, sends the positions request, and a snapshot it returns has
\* block_number = 0.
C11_BlockNumberFailureAbsorbed ==
    (Len(answers) >= 1 /\ answers[1].kind = "failed") =>
        /\ sent[1].method = "eth_blockNumber"
        /\ block_number = <<0>>
        /\ Len(sent) >= 2
        /\ sent[2].calls[1].selector = "positions"
        /\ Len(answers) = 1 => (pc = "await_positions" /\ error = "")
        /\ pc = "returned" =>
              /\ snapshot[1].block_number = 0
              /\ snapshot[1].audit_trail.block_number = 0

\* A snapshot was returned although the block-number query had failed.
C11_Witness ==
    /\ pc = "returned"
    /\ answers[1].kind = "failed"
    /\ sent[1].method = "eth_blockNumber"
    /\ snapshot # <<>>
    /\ snapshot[1].block_number = 0

\* C12: eth_call raises the RPC error whenever the response has an error
\* member, raises the empty-result error whenever the result is absent, is
\* "0x" or has fewer than 4 characters, and otherwise returns the result
\* without its 0x prefix, which is never the empty string.
C12_EthCallOutcome ==
    (c_fn = "eth_call" /\ c_pc \in {"returned", "raised"}
       /\ c_arg.kind # "transport") =>
        LET short == c_arg.kind = "noresult" \/ HexLen(c_arg.result) + 2 < 4
        IN  /\ c_arg.kind = "error" =>
                 c_pc = "raised" /\ c_out.raised = "RuntimeError: RPC error"
            /\ (c_arg.kind # "error" /\ short) =>
                 c_pc = "raised" /\ c_out.raised = "RuntimeError: Empty response"
            /\ (c_arg.kind # "error" /\ ~short) =>
                 /\ c_pc = "returned"
                 /\ c_out.value = <<c_arg.result>>
                 /\ Truthy(c_out.value[1])

\* eth_call raised on a result of three characters ("0x" and one digit).
C12_Witness ==
    /\ c_fn = "eth_call"
    /\ c_pc = "raised"
    /\ c_arg.kind = "result"
    /\ HexLen(c_arg.result) = 1

\* The attempt of task i yielded a position: positions() succeeded and
\* decoded non-zero token addresses.
YieldsPosition(i) ==
    /\ d_tasks[i].reply # <<>>
    /\ ~eth_call_raises(d_tasks[i].reply[1])
    /\ ~PositionDecodeRaises(eth_call_value(d_tasks[i].reply[1]))
    /\ PositionRecord(eth_call_value(d_tasks[i].reply[1])).token0 # ZeroAddress
    /\ PositionRecord(eth_call_value(d_tasks[i].reply[1])).token1 # ZeroAddress

\* C13: _detect_position_network launches one attempt per candidate network
\* concurrently (none waits for another to finish); it returns a network only
\* if that network's positions() read succeeded and decoded non-zero token
\* addresses, and None exactly when no candidate yields such a position.
C13_DetectedNetworkValid ==
    /\ d_pc \in {"gather", "returned"} =>
          \A i \in 1..Len(d_tasks) : d_tasks[i].pc # "created"
    /\ d_pc = "returned" =>
          /\ d_out[1] # <<>> =>
                \E i \in 1..Len(d_tasks) :
                   d_tasks[i].net = d_out[1][1] /\ YieldsPosition(i)
          /\ d_out[1] = <<>> <=> ~\E i \in 1..Len(d_tasks) : YieldsPosition(i)

\* The calls of acquire() that returned at a time in [t, t + period).
GrantedIn(t) ==
    {k \in 1..Len(lim_granted) :
        t <= lim_granted[k].time /\ lim_granted[k].time < t + PeriodTicks}

\* C14: for one _RateLimiter shared by concurrently running tasks, at most
\* max_requests calls of acquire() return within any sliding window of
\* period_seconds.
C14_WindowLimit ==
    \A t \in 0..EndOfTime : Cardinality(GrantedIn(t)) <= MaxRequests

\* The entries of lim_granted that belong to task i.
GrantsOf(i) == {k \in 1..Len(lim_granted) : lim_granted[k].task = i}

\* The grants before the k-th that were still inside the window when the
\* k-th was made.
RecentBefore(k) ==
    {j \in 1..(k - 1) : lim_granted[k].time - lim_granted[j].time < PeriodTicks}

\* No request is dropped or rejected: a task is calling, suspended or served;
\* a served task recorded exactly one timestamp and the others none; a task
\* served without having been suspended found the window not full.
C15_Safety ==
    \A i \in 1..Len(lim_tasks) :
        /\ lim_tasks[i].pc \in {"ready", "sleeping", "done"}
        /\ Cardinality(GrantsOf(i)) = (IF lim_tasks[i].pc = "done" THEN 1 ELSE 0)
        /\ lim_tasks[i].pc = "sleeping" =>
              (lim_tasks[i].wake > 0 /\ lim_tasks[i].wake <= EndOfTime)
        /\ (lim_tasks[i].pc = "done" /\ lim_tasks[i].wake = 0) =>
              \A k \in GrantsOf(i) : Cardinality(RecentBefore(k)) < MaxRequests

\* C15: acquire() never drops or rejects a request: when the window is full
\* it suspends the calling task, and every call of acquire() eventually
\* returns, having recorded exactly one timestamp.
C15_AcquireReturns ==
    /\ []C15_Safety
    /\ \A i \in 1..LimiterTasks :
          (lim_tasks[i].pc = "sleeping") ~> (lim_tasks[i].pc = "done")

\* A task that was suspended on a full window has been served.
C15_Witness ==
    \E i \in 1..Len(lim_tasks) :
        /\ lim_tasks[i].pc = "done"
        /\ lim_tasks[i].wake > 0
        /\ \E k \in GrantsOf(i) : lim_granted[k].time >= lim_tasks[i].wake

\* C16: every outbound JSON-RPC request (eth_call, eth_call_batch,
\* eth_block_number) acquires the RPC rate limiter before it is sent: the
\* limiter has granted at least as many calls of acquire() as requests have
\* been posted.
C16_RequestsAcquireLimiter ==
    Len(lim_granted) >= Len(sent)

\* Requests i and j of sent carry a common logical call: the same (to,
\* selector, arguments) triple.
ShareCall(i, j) ==
    \E k \in 1..Len(sent[i].calls) : \E l \in 1..Len(sent[j].calls) :
        sent[i].calls[k] = sent[j].calls[l]

\* The single requests for selector.
RequestsOf(selector) ==
    {i \in 1..Len(sent) : Len(sent[i].calls) = 1 /\ ~sent[i].batch
                           /\ sent[i].calls[1].selector = selector}

\* C17: no request is retried except through the batch-to-sequential
\* fallback: each logical call is sent at most once inside a batch and at
\* most once more as a single call, the latter only after its batch raised;
\* the block-number query, positions and getPool are never batched and are
\* sent exactly once (getPool only when no pool address was supplied).
C17_NoRetries ==
    /\ Cardinality({i \in 1..Len(sent) : sent[i].method = "eth_blockNumber"})
          = (IF Len(sent) >= 1 THEN 1 ELSE 0)
    /\ \A i \in 1..Len(sent) :
          /\ \A k \in 1..Len(sent[i].calls) :
                /\ \A l \in (k + 1)..Len(sent[i].calls) :
                      sent[i].calls[k] # sent[i].calls[l]
                /\ sent[i].batch =>
                      sent[i].calls[k].selector \notin {"positions", "getPool"}
          /\ \A j \in (i + 1)..Len(sent) :
                \/ sent[i].batch /\ ~sent[j].batch /\ answers[i].kind = "raise"
                \/ ~ShareCall(i, j)
    /\ Cardinality(RequestsOf("positions")) = (IF Len(sent) >= 2 THEN 1 ELSE 0)
    /\ Cardinality(RequestsOf("getPool"))
          = (IF Len(sent) >= 3 /\ pool_arg = <<>> THEN 1 ELSE 0)

\* A run that went through both fallbacks: slot0() and ticks() were each
\* sent in a batch and once more alone.
C17_Witness ==
    /\ pc = "returned"
    /\ \E i \in RequestsOf("slot0") : \E b \in 1..(i - 1) :
          sent[b].batch /\ ShareCall(b, i)
    /\ \E i \in RequestsOf("ticks") : \E b \in 1..(i - 1) :
          sent[b].batch /\ ShareCall(b, i)

\* C18: a position record whose decoded tickLower is not strictly below
\* tickUpper is a data-integrity error: read_position raises and never
\* returns a snapshot computed from such a record.
C18_TickOrderChecked ==
    (pos # <<>> /\ pos[1].tickLower >= pos[1].tickUpper) =>
        /\ pc # "returned"
        /\ snapshot = <<>>

\* An encoding of exactly one word: ABI_WORD_HEX characters, all hex digits.
IsWordText(cs) ==
    /\ Len(cs) = WordHex
    /\ IsHexText(cs)
    /\ HexLen(Payload(cs)) = ABI_WORD_HEX

\* C19: the codec is lossless on single words: decode_uint(encode_uint256(x),
\* 0) = x for every 0 <= x < 2^256 and decode_int(encode_int24(t), 0) = t for
\* every -2^255 <= t < 2^255, and each encoding is exactly 64 hex characters.
C19_RoundTrip ==
    /\ (c_fn = "encode_uint256" /\ c_arg \in 0..(Q256 - 1)) =>
          /\ c_pc \in {"returned", "decoded"} => IsWordText(c_out.value[1])
          /\ c_pc = "decoded" =>
                /\ c_out.decoded = <<c_arg>>
                /\ decode_uint(Payload(c_out.value[1]), 0) = c_arg
    /\ (c_fn = "encode_int24" /\ c_arg \in (-SIGN_BIT)..(SIGN_BIT - 1)) =>
          /\ c_pc \in {"returned", "decoded"} => IsWordText(c_out.value[1])
          /\ c_pc = "decoded" =>
                /\ c_out.decoded = <<c_arg>>
                /\ decode_int(Payload(c_out.value[1]), 0) = c_arg

\* The most negative tick-like value went through encode_int24 and back.
C19_Witness ==
    /\ c_fn = "encode_int24"
    /\ c_pc = "decoded"
    /\ c_arg = -SIGN_BIT
    /\ c_out.value[1][1] = 8
    /\ c_out.decoded = <<-SIGN_BIT>>

\* The address is exactly 40 hex characters once an optional 0x is stripped
\* (the characters of an address, for the scaled word).
ValidAddress(addr) == Len(addr.body) = AddressHex /\ IsHexText(addr.body)

\* C20: the encode functions reject invalid input instead of emitting a
\* malformed word: encode_uint256 fails for a negative value or a value
\* >= 2^256, encode_address fails unless the address is exactly 40 hex
\* characters after stripping an optional 0x prefix, and every encoding that
\* is returned is exactly 64 hex characters.
C20_EncodersReject ==
    (c_pc \in {"returned", "raised", "decoded"}
       /\ c_fn \in {"encode_uint256", "encode_address"}) =>
        /\ (c_fn = "encode_uint256" /\ (c_arg < 0 \/ c_arg >= Q256)) =>
              c_out.value = <<>>
        /\ (c_fn = "encode_address" /\ ~ValidAddress(c_arg)) =>
              c_out.value = <<>>
        /\ c_out.value # <<>> => IsWordText(c_out.value[1])

\* v is text with zero bytes (and characters of drop) taken off its ends:
\* what was cut holds only such characters and no zero byte is left at the
\* end of v.
IsTrimOf(v, text, drop) ==
    /\ \E i \in 1..(Len(text) + 1) : \E j \in (i - 1)..Len(text) :
          /\ v = SubSeq(text, i, j)
          /\ \A k \in (1..(i - 1)) \cup ((j + 1)..Len(text)) : text[k] \in drop
    /\ v # <<>> => v[Len(v)] # 0

C21_LayoutSeen ==
    /\ c_fn = "decode_string" /\ c_pc = "returned"
    /\ ~layout_raises(c_arg) /\ Len(c_out.value[1]) = 2

\* The layout fails and the first word is returned as text.
C21_Bytes32Seen ==
    /\ c_fn = "decode_string" /\ c_pc = "returned"
    /\ layout_raises(c_arg) /\ ~bytes32_raises(c_arg) /\ c_out.value[1] = <<65>>

\* ------------------------------------------- position and liquidity math

RECURSIVE GCD(_, _)
GCD(x, y) == IF y = 0 THEN x ELSE GCD(y, x % y)

\* The floats of the math functions are exact fractions [n, d] with d > 0,
\* in lowest terms.
Frac(n, d) ==
    LET g == GCD(IF n < 0 THEN -n ELSE n, d)
    IN  [n |-> n \div g, d |-> d \div g]

FSub(a, b) == Frac(a.n * b.d - b.n * a.d, a.d * b.d)

FMul(a, b) == Frac(a.n * b.n, a.d * b.d)

\* a / b for b # 0
FDiv(a, b) ==
    IF b.n > 0 THEN Frac(a.n * b.d, a.d * b.n) ELSE Frac(-(a.n * b.d), -(a.d * b.n))

FLess(a, b) == a.n * b.d < b.n * a.d

FEq(a, b) == a.n * b.d = b.n * a.d

FLeq(a, b) == a.n * b.d <= b.n * a.d

FZero == Frac(0, 1)

FOne == Frac(1, 1)

RECURSIVE Pow(_, _)
\* base ** k for k >= 0
Pow(base, k) == IF k = 0 THEN 1 ELSE base * Pow(base, k - 1)

\* Ticks run over -MaxTick..MaxTick (-887272..887272 in Uniswap V3).
MaxTick == 2

\* Most liquidity of a position.
MaxLiquidity == 2

\* The square root of the price ratio of two neighbouring ticks:
\* 1.0001 ** (1 / 2), here a whole number so that every power is exact.
SqrtTickBase == 2

\* 1.0001 ** (tick / 2)
SqrtAtTick(tick) ==
    IF tick >= 0 THEN Frac(Pow(SqrtTickBase, tick), 1)
    ELSE Frac(1, Pow(SqrtTickBase, -tick))

\* rpc_helpers.py line 40: the denominator of sqrtPriceX96, scaled so that the
\* square root price of every tick is a value of sqrtPriceX96
Q96 == Pow(SqrtTickBase, MaxTick)

\* A variant whose lower bound is one tick too low.
compute_token_amounts_shifted(a) ==
    LET liquidity == a.liquidity
        sqrtPriceX96 == a.sqrtPriceX96
        current_tick == a.current_tick
        tick_lower == a.tick_lower - 1
        tick_upper == a.tick_upper
    IN  IF liquidity = 0 \/ sqrtPriceX96 = 0
        THEN [amount0 |-> FZero, amount1 |-> FZero]
        ELSE LET L == Frac(liquidity, 1)
                 sqrtP == Frac(sqrtPriceX96, Q96)
                 sqrtPl == SqrtAtTick(tick_lower)
                 sqrtPu == SqrtAtTick(tick_upper)
                 amount0_raw ==
                     IF current_tick < tick_lower
                     THEN FMul(L, FSub(FDiv(FOne, sqrtPl), FDiv(FOne, sqrtPu)))
                     ELSE IF current_tick >= tick_upper THEN FZero
                     ELSE FMul(L, FSub(FDiv(FOne, sqrtP), FDiv(FOne, sqrtPu)))
                 amount1_raw ==
                     IF current_tick < tick_lower THEN FZero
                     ELSE IF current_tick >= tick_upper
                     THEN FMul(L, FSub(sqrtPu, sqrtPl))
                     ELSE FMul(L, FSub(sqrtP, sqrtPl))
             IN  [amount0 |-> FDiv(amount0_raw, Frac(Pow(10, a.decimals0), 1)),
                  amount1 |-> FDiv(amount1_raw, Frac(Pow(10, a.decimals1), 1))]

\* position_reader.py lines 493-532: _compute_token_amounts(**a)
compute_token_amounts(a) ==
    LET liquidity == a.liquidity
        sqrtPriceX96 == a.sqrtPriceX96
        current_tick == a.current_tick
        tick_lower == a.tick_lower
        tick_upper == a.tick_upper
    IN  IF liquidity = 0 \/ sqrtPriceX96 = 0
        THEN [amount0 |-> FZero, amount1 |-> FZero]
        ELSE LET L == Frac(liquidity, 1)
                 sqrtP == Frac(sqrtPriceX96, Q96)
                 sqrtPl == SqrtAtTick(tick_lower)
                 sqrtPu == SqrtAtTick(tick_upper)
                 amount0_raw ==
                     IF current_tick < tick_lower
                     THEN FMul(L, FSub(FDiv(FOne, sqrtPl), FDiv(FOne, sqrtPu)))
                     ELSE IF current_tick >= tick_upper THEN FZero
                     ELSE FMul(L, FSub(FDiv(FOne, sqrtP), FDiv(FOne, sqrtPu)))
                 amount1_raw ==
                     IF current_tick < tick_lower THEN FZero
                     ELSE IF current_tick >= tick_upper
                     THEN FMul(L, FSub(sqrtPu, sqrtPl))
                     ELSE FMul(L, FSub(sqrtP, sqrtPl))
             IN  [amount0 |-> FDiv(amount0_raw, Frac(Pow(10, a.decimals0), 1)),
                  amount1 |-> FDiv(amount1_raw, Frac(Pow(10, a.decimals1), 1))]

\* _compute_token_amounts is called with the arguments c_arg
ComputeTokenAmounts ==
    /\ c_pc = "called"
    /\ c_fn = "compute_token_amounts"
    /\ c_out' = Returned(compute_token_amounts(c_arg))
    /\ c_pc' = "returned"
    /\ UNCHANGED <<c_fn, c_arg, detectVars, limiterVars,
                   batchVars, feeVars, readVars>>

Ticks == (-MaxTick)..MaxTick

\* Arguments of _compute_token_amounts: every liquidity, every sqrtPriceX96
\* from 0 to just past the highest tick's, every three ticks, decimals of
\* either token 0 or 1.
TokenAmountArgs ==
    [liquidity : 0..MaxLiquidity,
     sqrtPriceX96 : 0..(Q96 * Pow(SqrtTickBase, MaxTick) + 1),
     current_tick : Ticks, tick_lower : Ticks, tick_upper : Ticks,
     decimals0 : {0, 1}, decimals1 : {0}]

\* ------------------------------------------------------------ in range

\* The digits prices are rounded to in the snapshot (6), scaled.
PriceDigits == 1

\* The digits the percentages of range_proximity are rounded to (2), scaled.
PctDigits == 1

\* round(x, digits): the nearest multiple of 10 ** -digits, a tie going to
\* the even one
Round(x, digits) ==
    LET scaled == x.n * Pow(10, digits)
        q == scaled \div x.d
        r == scaled % x.d
    IN  Frac(IF 2 * r > x.d \/ (2 * r = x.d /\ q % 2 = 1) THEN q + 1 ELSE q,
             Pow(10, digits))

\* 10 ** (decimals0 - decimals1)
DecimalsFactor(decimals0, decimals1) ==
    IF decimals0 >= decimals1 THEN Frac(Pow(10, decimals0 - decimals1), 1)
    ELSE Frac(1, Pow(10, decimals1 - decimals0))

\* position_reader.py lines 611-627
sqrtPriceX96_to_price(sqrtPriceX96, decimals0, decimals1) ==
    IF sqrtPriceX96 = 0 THEN FZero
    ELSE FMul(FMul(Frac(sqrtPriceX96, Q96), Frac(sqrtPriceX96, Q96)),
              DecimalsFactor(decimals0, decimals1))

\* position_reader.py lines 629-639: 1.0001 ** tick is the square of
\* 1.0001 ** (tick / 2)
tick_to_price_human(tick, decimals0, decimals1) ==
    FMul(FMul(SqrtAtTick(tick), SqrtAtTick(tick)),
         DecimalsFactor(decimals0, decimals1))

\* real_defi_math.py lines 501-529
range_proximity(current_price, range_min, range_max) ==
    IF FLeq(range_max, range_min) \/ FLeq(current_price, FZero)
    THEN [in_range |-> FALSE, downside_buffer_pct |-> FZero,
          upside_buffer_pct |-> FZero, position_in_range_pct |-> FZero]
    ELSE LET in_range == FLeq(range_min, current_price) /\ FLeq(current_price, range_max)
             hundred == Frac(100, 1)
             downside == FMul(FDiv(FSub(current_price, range_min), current_price), hundred)
             upside == FMul(FDiv(FSub(range_max, current_price), current_price), hundred)
             total_range == FSub(range_max, range_min)
             pos_pct == IF in_range
                        THEN FMul(FDiv(FSub(current_price, range_min), total_range), hundred)
                        ELSE FZero
         IN  [in_range |-> in_range,
              downside_buffer_pct |-> Round(downside, PctDigits),
              upside_buffer_pct |-> Round(upside, PctDigits),
              position_in_range_pct |-> Round(pos_pct, PctDigits)]

\* position_reader.py lines 263-265, 297 and 329-334: the in-range flag and
\* the rounded prices of the snapshot read_position returns
SnapshotRange(a) ==
    [in_range |-> a.tick_lower <= a.current_tick /\ a.current_tick < a.tick_upper,
     current_price |->
         Round(sqrtPriceX96_to_price(a.sqrtPriceX96, a.decimals0, a.decimals1),
               PriceDigits),
     price_lower |->
         Round(tick_to_price_human(a.tick_lower, a.decimals0, a.decimals1), PriceDigits),
     price_upper |->
         Round(tick_to_price_human(a.tick_upper, a.decimals0, a.decimals1), PriceDigits)]

\* real_defi_math.py lines 227-229 and 693-696: from_onchain_data copies the
\* three prices of the snapshot, analyze_position hands them to range_proximity
AnalysisRange(onchain) ==
    range_proximity(onchain.current_price, onchain.price_lower, onchain.price_upper)

\* The snapshot of a position is taken and analysed.
AnalyzeRange ==
    /\ c_pc = "called"
    /\ c_fn = "analyze_position"
    /\ c_out' = Returned([snapshot |-> SnapshotRange(c_arg),
                          analysis |-> AnalysisRange(SnapshotRange(c_arg))])
    /\ c_pc' = "returned"
    /\ UNCHANGED <<c_fn, c_arg, detectVars, limiterVars,
                   batchVars, feeVars, readVars>>

\* What the chain can hold: tickLower < tickUpper, and a square root price
\* that lies in the current tick.
OnChainRanges ==
    {a \in [sqrtPriceX96 : 1..(Q96 * Pow(SqrtTickBase, MaxTick) + 1),
            current_tick : Ticks, tick_lower : Ticks, tick_upper : Ticks,
            decimals0 : {0, 1}, decimals1 : {0, 1}] :
        /\ a.tick_lower < a.tick_upper
        /\ FLeq(SqrtAtTick(a.current_tick), Frac(a.sqrtPriceX96, Q96))
        /\ FLess(Frac(a.sqrtPriceX96, Q96), SqrtAtTick(a.current_tick + 1))}

\* --------------------------------------------------- calculate_liquidity

\* The largest square root of a price, in units of 1 / Q96.
MaxSqrtPrice == 2 * Q96

\* Prices whose square root is a multiple of 1 / Q96, from 0 to 2.
SquarePrices == {FMul(Frac(k, Q96), Frac(k, Q96)) : k \in 0..MaxSqrtPrice}

\* math.sqrt(x) of a price of SquarePrices: in lowest terms its numerator
\* and denominator are squares
FSqrt(x) ==
    Frac(CHOOSE r \in 0..MaxSqrtPrice : r * r = x.n,
         CHOOSE r \in 1..Q96 : r * r = x.d)

FMin(a, b) == IF FLeq(a, b) THEN a ELSE b

FMax(a, b) == IF FLeq(a, b) THEN b ELSE a

\* real_defi_math.py lines 325-327: 1 / sp_l or 1 / sp_u divides by zero
calculate_liquidity_raises(a) ==
    /\ FLeq(a.price_current, a.price_lower)
    /\ FSqrt(a.price_lower).n = 0 \/ FSqrt(a.price_upper).n = 0

\* real_defi_math.py lines 296-336, when no division raises
calculate_liquidity_value(a) ==
    LET sp_c == FSqrt(a.price_current)
        sp_l == FSqrt(a.price_lower)
        sp_u == FSqrt(a.price_upper)
    IN  IF FLeq(a.price_current, a.price_lower)
        THEN LET denom == FSub(FDiv(FOne, sp_l), FDiv(FOne, sp_u))
             IN  IF FLess(FZero, denom) THEN FDiv(a.amount0, denom) ELSE FZero
        ELSE IF FLeq(a.price_upper, a.price_current)
        THEN LET denom == FSub(sp_u, sp_l)
             IN  IF FLess(FZero, denom) THEN FDiv(a.amount1, denom) ELSE FZero
        ELSE LET denom0 == FSub(FDiv(FOne, sp_c), FDiv(FOne, sp_u))
                 denom1 == FSub(sp_c, sp_l)
                 l0 == IF FLess(FZero, denom0) THEN FDiv(a.amount0, denom0) ELSE FZero
                 l1 == IF FLess(FZero, denom1) THEN FDiv(a.amount1, denom1) ELSE FZero
             IN  IF FLess(FZero, l0) /\ FLess(FZero, l1)
                 THEN FMin(l0, l1) ELSE FMax(l0, l1)

\* real_defi_math.py lines 296-336
calculate_liquidity(a) ==
    IF calculate_liquidity_raises(a) THEN Raised("ZeroDivisionError")
    ELSE Returned(calculate_liquidity_value(a))

\* calculate_liquidity(**c_arg)
CalculateLiquidity ==
    /\ c_pc = "called"
    /\ c_fn = "calculate_liquidity"
    /\ c_out' = calculate_liquidity(c_arg)
    /\ c_pc' = IF calculate_liquidity_raises(c_arg) THEN "raised" ELSE "returned"
    /\ UNCHANGED <<c_fn, c_arg, detectVars, limiterVars,
                   batchVars, feeVars, readVars>>

\* Arguments of calculate_liquidity: amounts 0..MaxLiquidity and every
\* three prices, zero and inverted ranges included.
LiquidityArgs ==
    [amount0 : {Frac(x, 1) : x \in 0..MaxLiquidity},
     amount1 : {Frac(x, 1) : x \in 0..MaxLiquidity},
     price_current : SquarePrices, price_lower : SquarePrices,
     price_upper : SquarePrices]

\* ------------------------------------------- price_to_tick, tick_to_price

\* The price ratio of two neighbouring ticks, 1.0001: here a fraction whose
\* powers are exact. One tick is TickBase - 1 of the price (0.01%).
TickBase == Frac(3, 2)

\* 1.0001 ** tick
TickPower(tick) ==
    IF tick >= 0 THEN Frac(Pow(TickBase.n, tick), Pow(TickBase.d, tick))
    ELSE Frac(Pow(TickBase.d, -tick), Pow(TickBase.n, -tick))

\* max(-887272, min(887272, x))
ClampTick(x) == IF x < -MaxTick THEN -MaxTick ELSE IF x > MaxTick THEN MaxTick ELSE x

\* math.floor(clamped) of real_defi_math.py lines 279-281: the largest tick
\* whose price is at most price, kept inside the tick range
FloorLog(price) ==
    ClampTick(CHOOSE t \in (-MaxTick - 1)..MaxTick :
                 /\ t = -MaxTick - 1 \/ FLeq(TickPower(t), price)
                 /\ t = MaxTick \/ FLess(price, TickPower(t + 1)))

\* A variant that lands one tick too low.
price_to_tick_low(price) == ClampTick(FloorLog(price) - 1)

\* real_defi_math.py lines 264-281, for price > 0
price_to_tick(price) == FloorLog(price)

\* real_defi_math.py lines 284-294
tick_to_price(tick) == TickPower(ClampTick(tick))

\* price_to_tick(price), then tick_to_price of the tick it returned
TickRoundTrip ==
    /\ c_pc = "called"
    /\ c_fn = "price_to_tick"
    /\ IF FLeq(c_arg, FZero)
       THEN c_out' = Raised("ValueError") /\ c_pc' = "raised"
       ELSE /\ c_out' = Returned([tick |-> price_to_tick(c_arg),
                                  recovered |-> tick_to_price(price_to_tick(c_arg))])
            /\ c_pc' = "returned"
    /\ UNCHANGED <<c_fn, c_arg, detectVars, limiterVars,
                   batchVars, feeVars, readVars>>

\* Prices in eighths from below zero to beyond the highest tick, and the
\* price of every tick.
PriceArgs ==
    {Frac(k, 8) : k \in (-1)..(8 * (MaxTick + 3))}
    \cup {TickPower(t) : t \in Ticks}

\* One of the math functions is called.
InitMath ==
    /\ BatchInit /\ FeeIdle /\ ReadIdle /\ DetectIdle /\ LimiterIdle
    /\ c_pc = "called"
    /\ \/ c_fn = "compute_token_amounts" /\ c_arg \in TokenAmountArgs
       \/ c_fn = "analyze_position" /\ c_arg \in OnChainRanges
       \/ c_fn = "calculate_liquidity" /\ c_arg \in LiquidityArgs
       \/ c_fn = "price_to_tick" /\ c_arg \in PriceArgs
    /\ c_out = <<>>

NextMath ==
    ComputeTokenAmounts \/ AnalyzeRange \/ CalculateLiquidity \/ TickRoundTrip

SpecMath == InitMath /\ [][NextMath]_vars

\* The square root price lies in the current tick: at or above the tick's
\* own, below the next tick's.
PriceInTick(a) ==
    /\ FLeq(SqrtAtTick(a.current_tick), Frac(a.sqrtPriceX96, Q96))
    /\ FLess(Frac(a.sqrtPriceX96, Q96), SqrtAtTick(a.current_tick + 1))

Done(fn) == c_fn = fn /\ c_pc = "returned"

\* C22 as claimed: for liquidity > 0, sqrtPriceX96 > 0 and tickLower <
\* tickUpper, _compute_token_amounts returns amount1 = 0 and amount0 > 0
\* below the range, amount0 = 0 and amount1 > 0 at or above tickUpper, and
\* both amounts > 0 when the tick is inside the range and the square root
\* price lies in the tick; both amounts are 0 when liquidity is 0.
C22_TokenAmounts ==
    Done("compute_token_amounts") =>
       LET a == c_arg
           amount0 == c_out.value[1].amount0
           amount1 == c_out.value[1].amount1
       IN  /\ a.liquidity = 0 => amount0.n = 0 /\ amount1.n = 0
           /\ (a.liquidity > 0 /\ a.sqrtPriceX96 > 0 /\ a.tick_lower < a.tick_upper) =>
                 /\ a.current_tick < a.tick_lower =>
                       amount1.n = 0 /\ FLess(FZero, amount0)
                 /\ a.current_tick >= a.tick_upper =>
                       amount0.n = 0 /\ FLess(FZero, amount1)
                 /\ (a.tick_lower <= a.current_tick /\ a.current_tick < a.tick_upper
                       /\ PriceInTick(a)) =>
                       FLess(FZero, amount0) /\ FLess(FZero, amount1)

\* C22 amended: as above, but inside the range amount0 > 0 and amount1 >= 0,
\* and amount1 is 0 exactly when the square root price is that of
\* tickLower.
C22_TokenAmountsAmended ==
    Done("compute_token_amounts") =>
       LET a == c_arg
           amount0 == c_out.value[1].amount0
           amount1 == c_out.value[1].amount1
       IN  /\ a.liquidity = 0 => amount0.n = 0 /\ amount1.n = 0
           /\ (a.liquidity > 0 /\ a.sqrtPriceX96 > 0 /\ a.tick_lower < a.tick_upper) =>
                 /\ a.current_tick < a.tick_lower =>
                       amount1.n = 0 /\ FLess(FZero, amount0)
                 /\ a.current_tick >= a.tick_upper =>
                       amount0.n = 0 /\ FLess(FZero, amount1)
                 /\ (a.tick_lower <= a.current_tick /\ a.current_tick < a.tick_upper
                       /\ PriceInTick(a)) =>
                       /\ FLess(FZero, amount0)
                       /\ FLeq(FZero, amount1)
                       /\ amount1.n = 0 <=>
                             FEq(Frac(a.sqrtPriceX96, Q96), SqrtAtTick(a.tick_lower))

\* The price sits exactly on the lower bound of the range: only token0 is
\* held.
C22_Witness ==
    /\ Done("compute_token_amounts")
    /\ c_arg.liquidity > 0
    /\ c_arg.tick_lower < c_arg.tick_upper
    /\ c_arg.current_tick = c_arg.tick_lower
    /\ FEq(Frac(c_arg.sqrtPriceX96, Q96), SqrtAtTick(c_arg.tick_lower))
    /\ c_out.value[1].amount1.n = 0
    /\ FLess(FZero, c_out.value[1].amount0)

\* C23: the in-range flag of a position is true exactly when tickLower <=
\* currentTick < tickUpper, in the on-chain snapshot and in the analysis
\* derived from it.
C23_InRangeFlag ==
    Done("analyze_position") =>
       LET inside == c_arg.tick_lower <= c_arg.current_tick
                     /\ c_arg.current_tick < c_arg.tick_upper
       IN  /\ c_out.value[1].snapshot.in_range = inside
           /\ c_out.value[1].analysis.in_range = inside

\* The snapshot's own flag is the half-open window.
C23_SnapshotFlag ==
    Done("analyze_position") =>
       c_out.value[1].snapshot.in_range
          = (c_arg.tick_lower <= c_arg.current_tick
             /\ c_arg.current_tick < c_arg.tick_upper)

\* The price sits exactly on the upper bound and no price was changed by
\* the rounding: the snapshot says out of range, the analysis in range.
C23_UpperBoundary ==
    /\ Done("analyze_position")
    /\ c_arg.current_tick = c_arg.tick_upper
    /\ FEq(Frac(c_arg.sqrtPriceX96, Q96), SqrtAtTick(c_arg.tick_upper))
    /\ FEq(c_out.value[1].snapshot.price_upper,
           tick_to_price_human(c_arg.tick_upper, c_arg.decimals0, c_arg.decimals1))
    /\ ~c_out.value[1].snapshot.in_range
    /\ c_out.value[1].analysis.in_range

\* The single-sided liquidity estimates of the whitepaper for a price
\* inside the range: L0 from token0, L1 from token1.
SingleSidedL0(a) ==
    FDiv(a.amount0, FSub(FDiv(FOne, FSqrt(a.price_current)),
                         FDiv(FOne, FSqrt(a.price_upper))))

SingleSidedL1(a) ==
    FDiv(a.amount1, FSub(FSqrt(a.price_current), FSqrt(a.price_lower)))

\* C24: for a range 0 < price_lower < price_upper, calculate_liquidity uses
\* token0 only when the price is at or below the range, token1 only when it
\* is at or above it, and inside the range returns the minimum of the two
\* single-sided estimates L0 and L1; it returns 0 when both amounts are 0.
C24_ThreeRegimes ==
    (/\ c_fn = "calculate_liquidity" /\ c_pc \in {"returned", "raised"}
     /\ FLess(FZero, c_arg.price_lower)
     /\ FLess(c_arg.price_lower, c_arg.price_upper)) =>
       /\ c_pc = "returned"
       /\ LET a == c_arg
              L == c_out.value[1]
          IN  /\ FLeq(a.price_current, a.price_lower) =>
                    FEq(L, FDiv(a.amount0, FSub(FDiv(FOne, FSqrt(a.price_lower)),
                                                FDiv(FOne, FSqrt(a.price_upper)))))
              /\ FLeq(a.price_upper, a.price_current) =>
                    FEq(L, FDiv(a.amount1, FSub(FSqrt(a.price_upper),
                                                FSqrt(a.price_lower))))
              /\ (FLess(a.price_lower, a.price_current)
                     /\ FLess(a.price_current, a.price_upper)) =>
                    FEq(L, FMin(SingleSidedL0(a), SingleSidedL1(a)))
              /\ (a.amount0.n = 0 /\ a.amount1.n = 0) => L.n = 0

\* Inside the range with token1 only: L0 is 0 and L1 is returned.
C24_MaxReturned ==
    /\ Done("calculate_liquidity")
    /\ FLess(FZero, c_arg.price_lower)
    /\ FLess(c_arg.price_lower, c_arg.price_current)
    /\ FLess(c_arg.price_current, c_arg.price_upper)
    /\ c_arg.amount0.n = 0
    /\ FLess(FZero, c_arg.amount1)
    /\ FEq(c_out.value[1], SingleSidedL1(c_arg))
    /\ FLess(FZero, c_out.value[1])

\* C30: calculate_liquidity never raises and returns a value >= 0 for all
\* amounts >= 0 and all prices >= 0, price_current = price_lower = 0 and
\* price_lower = price_upper included.
C30_LiquidityTotal ==
    (c_fn = "calculate_liquidity" /\ c_pc # "called") =>
       /\ c_pc = "returned"
       /\ c_out.raised = ""
       /\ FLeq(FZero, c_out.value[1])

\* price_current = price_lower = 0: 1 / sqrt(price_lower) divides by zero.
C30_ZeroPriceRaises ==
    /\ c_fn = "calculate_liquidity"
    /\ c_pc = "raised"
    /\ c_arg.price_current.n = 0
    /\ c_arg.price_lower.n = 0
    /\ c_out.raised = "ZeroDivisionError"

\* The tick of price lies inside the tick range.
TickInRange(price) ==
    /\ FLeq(TickPower(-MaxTick), price)
    /\ FLess(price, TickPower(MaxTick + 1))

\* |recovered - price| / price
RelativeError(recovered, price) ==
    IF FLeq(recovered, price) THEN FDiv(FSub(price, recovered), price)
    ELSE FDiv(FSub(recovered, price), price)

\* C25: for every price p > 0 whose tick lies inside the tick range,
\* tick_to_price(price_to_tick(p)) is within one tick's width (0.01%)
\* relative error of p.
C25_RoundTripError ==
    (Done("price_to_tick") /\ TickInRange(c_arg)) =>
       FLess(RelativeError(c_out.value[1].recovered, c_arg), FSub(TickBase, FOne))

\* A price strictly between two ticks, below 1: the recovered price is lower.
C25_Witness ==
    /\ Done("price_to_tick")
    /\ TickInRange(c_arg)
    /\ c_out.value[1].tick < 0
    /\ FLess(c_out.value[1].recovered, c_arg)

\* ------------------------------------------- PositionIndexer.list_positions

\* Most DEXes scanned for one wallet, most position NFTs the wallet holds on
\* one of them, and the largest token id.
MaxDex == 2

MaxPositions == 2

MaxTokenId == 3

\* defi_cli/dex_registry.py lines 48, 79 and 106: the DEXes of the registry,
\* in the order _get_dex_contracts lists them.
DexNames == <<"uniswap_v3", "pancakeswap_v3", "sushiswap_v3">>

\* What _read(tid) finds for one token id: the position's liquidity, or that
\* read_position_summary raised.
ReadFailed == -1

\* position_indexer.py lines 376-398: _read(tid) for the read r of DEX dex;
\* <<>> stands for None
ReadSummary(dex, r) ==
    IF r.liquidity = ReadFailed THEN <<>>
    ELSE <<[token_id |-> r.token_id, liquidity |-> r.liquidity,
            is_active |-> r.liquidity > 0, dex_name |-> DexNames[dex]]>>

RECURSIVE ScanDex(_, _)
\* position_indexer.py lines 400-401: the summaries of one DEX in the order
\* of its token ids, failed reads dropped
ScanDex(dex, reads) ==
    IF reads = <<>> THEN <<>>
    ELSE ReadSummary(dex, Head(reads)) \o ScanDex(dex, Tail(reads))

RECURSIVE ExtendAll(_, _)
\* position_indexer.py lines 419-427: gather returns the scans in the order
\* of dex_contracts and every list is appended to all_positions
ExtendAll(scans, dex) ==
    IF dex > Len(scans) THEN <<>>
    ELSE ScanDex(dex, scans[dex]) \o ExtendAll(scans, dex + 1)

\* position_indexer.py line 430: the sort key
PositionKey(p) == <<-(IF p.is_active THEN 1 ELSE 0), -p.token_id>>

KeyLeq(k1, k2) == k1[1] < k2[1] \/ (k1[1] = k2[1] /\ k1[2] <= k2[2])

RECURSIVE InsertPosition(_, _)
\* p goes behind every element whose key is not larger: the sort is stable
InsertPosition(sorted, p) ==
    IF sorted = <<>> THEN <<p>>
    ELSE IF KeyLeq(PositionKey(Head(sorted)), PositionKey(p))
    THEN <<Head(sorted)>> \o InsertPosition(Tail(sorted), p)
    ELSE <<p>> \o sorted

RECURSIVE SortPositions(_)
\* position_indexer.py line 430: all_positions.sort(key=...)
SortPositions(ps) ==
    IF ps = <<>> THEN <<>>
    ELSE InsertPosition(SortPositions(SubSeq(ps, 1, Len(ps) - 1)), ps[Len(ps)])

\* position_indexer.py lines 312-432
list_positions(a) ==
    IF ~a.wallet_ok THEN Raised("ValueError")
    ELSE Returned(SortPositions(ExtendAll(a.scans, 1)))

\* list_positions(wallet) is awaited
ListPositions ==
    /\ c_pc = "called"
    /\ c_fn = "list_positions"
    /\ c_out' = list_positions(c_arg)
    /\ c_pc' = IF c_arg.wallet_ok THEN "returned" ELSE "raised"
    /\ UNCHANGED <<c_fn, c_arg, detectVars, limiterVars,
                   batchVars, feeVars, readVars>>

\* The NFTs a wallet holds on one DEX: distinct token ids in the order
\* tokenOfOwnerByIndex lists them, each with the liquidity of its position
\* (0 for a closed one) or a failed read.
DexReads ==
    {rs \in UNION {[1..n -> [token_id : 1..MaxTokenId,
                             liquidity : {ReadFailed, 0, 1, 2}]] :
                      n \in 0..MaxPositions} :
        \A i, j \in 1..Len(rs) : i # j => rs[i].token_id # rs[j].token_id}

\* A wallet, well-formed or not, and the NFTs it holds on each scanned DEX.
InitIndexer ==
    /\ BatchInit /\ FeeIdle /\ ReadIdle /\ DetectIdle /\ LimiterIdle
    /\ c_pc = "called"
    /\ c_fn = "list_positions"
    /\ c_arg \in [wallet_ok : BOOLEAN, scans : [1..MaxDex -> DexReads]]
    /\ c_out = <<>>

NextIndexer == ListPositions

SpecIndexer == InitIndexer /\ [][NextIndexer]_vars

\* C26: list_positions returns the summaries sorted by DEX and, within a
\* DEX, active positions before closed ones ordered by liquidity: the
\* positions of one DEX are contiguous and every active position of a DEX
\* precedes its closed ones.
C26_GroupedByDex ==
    Done("list_positions") =>
       LET r == c_out.value[1]
       IN  /\ \A i, j, k \in 1..Len(r) :
                 (i < j /\ j < k /\ r[i].dex_name = r[k].dex_name) =>
                    r[j].dex_name = r[i].dex_name
           /\ \A i, j \in 1..Len(r) :
                 (i < j /\ r[i].dex_name = r[j].dex_name) =>
                    /\ r[i].is_active \/ ~r[j].is_active
                    /\ r[i].is_active = r[j].is_active =>
                          r[i].liquidity >= r[j].liquidity

\* What the sort does give: active positions before closed ones over the
\* whole list, token ids descending among each.
C26_ActiveFirst ==
    Done("list_positions") =>
       LET r == c_out.value[1]
       IN  \A i, j \in 1..Len(r) :
              i < j =>
                 /\ r[i].is_active \/ ~r[j].is_active
                 /\ r[i].is_active = r[j].is_active => r[i].token_id >= r[j].token_id

\* An active position of the second DEX stands between two positions of the
\* first.
C26_Interleaved ==
    /\ Done("list_positions")
    /\ Len(c_out.value[1]) = 3
    /\ c_out.value[1][1].dex_name = DexNames[1]
    /\ c_out.value[1][2].dex_name = DexNames[2]
    /\ c_out.value[1][3].dex_name = DexNames[1]
    /\ c_out.value[1][2].is_active

\* --------------------------------------------------------------- cmd_report

\* The characters of "i agree" (commands.py line 64).
IAgree == <<105, 32, 97, 103, 114, 101, 101>>

\* What the user may type at the prompt, as code points: "I agree" in
\* several spellings, with blanks around it, and other answers.
TypedAnswers ==
    {<<73, 32, 97, 103, 114, 101, 101>>,
     <<105, 32, 97, 103, 114, 101, 101>>,
     <<32, 32, 73, 32, 97, 103, 114, 101, 101, 32, 32>>,
     <<73, 32, 65, 71, 82, 69, 69, 9>>,
     <<105, 32, 32, 97, 103, 114, 101, 101>>,
     <<73, 32, 97, 103, 114, 101, 101, 46>>,
     <<97, 103, 114, 101, 101>>,
     <<121, 101, 115>>,
     <<>>,
     <<32>>,
     <<105, 32, 97, 103, 114, 101>>,
     <<120, 32, 105, 32, 97, 103, 114, 101, 101>>}

\* input() returns a text, or the user interrupts or closes the input.
ConsentInputs ==
    {[raised |-> "", text |-> t] : t \in TypedAnswers}
    \cup {[raised |-> e, text |-> <<>>] : e \in {"KeyboardInterrupt", "EOFError"}}

\* str.lower() of an ASCII text
lower(text) ==
    [i \in 1..Len(text) |-> IF text[i] \in 65..90 THEN text[i] + 32 ELSE text[i]]

\* A variant that accepts every answer that starts with "i agree" and takes
\* an interrupt for a yes.
require_consent_lenient(in) ==
    IF in.raised # "" THEN TRUE
    ELSE LET ans == lower(strip(in.text, Whitespace))
         IN  Len(ans) >= Len(IAgree) /\ SubSeq(ans, 1, Len(IAgree)) = IAgree

\* commands.py lines 40-72: _require_consent with the input in
require_consent(in) ==
    IF in.raised # "" THEN FALSE
    ELSE lower(strip(in.text, Whitespace)) = IAgree

\* One more effect in the log of the invocation.
Effect(e) == [c_out EXCEPT !.effects = Append(@, e)]

\* commands.py lines 339-341, and 350-357 for where the run goes next
RequireConsent ==
    /\ c_fn = "cmd_report"
    /\ c_pc = "called"
    /\ c_out' = [c_out EXCEPT !.consent = <<require_consent(c_arg.answer)>>]
    /\ c_pc' = IF ~require_consent(c_arg.answer) THEN "returned"
               ELSE IF ~c_arg.position_id THEN "fallback"
               ELSE IF c_arg.network THEN "read" ELSE "detect"
    /\ UNCHANGED <<c_fn, c_arg, detectVars, limiterVars,
                   batchVars, feeVars, readVars>>

\* commands.py lines 357-373: _detect_position_network finds the network or
\* not
DetectNetwork ==
    /\ c_fn = "cmd_report"
    /\ c_pc = "detect"
    /\ c_out' = Effect("rpc:detect")
    /\ c_pc' \in {"read", "returned"}
    /\ UNCHANGED <<c_fn, c_arg, detectVars, limiterVars,
                   batchVars, feeVars, readVars>>

\* commands.py lines 375-379 and 404-412: read_position returns the
\* snapshot or raises; after a failure the run goes on with simulated data
\* only when a pool address was given
ReadOnchain ==
    /\ c_fn = "cmd_report"
    /\ c_pc = "read"
    /\ \E ok \in BOOLEAN :
          /\ c_out' = [Effect("rpc:read_position") EXCEPT !.onchain = ok]
          /\ c_pc' = IF ok THEN "market"
                     ELSE IF c_out.pool THEN "fetch" ELSE "returned"
    /\ UNCHANGED <<c_fn, c_arg, detectVars, limiterVars,
                   batchVars, feeVars, readVars>>

\* commands.py lines 388-412: analyze_pool_real for the resolved pool; a
\* failed lookup keeps the on-chain data, an exception drops it
FetchMarket ==
    /\ c_fn = "cmd_report"
    /\ c_pc = "market"
    /\ \E result \in {"success", "error", "raise"} :
          /\ c_out' = [Effect("http:dexscreener") EXCEPT !.onchain = result # "raise"]
          /\ c_pc' = IF result # "raise" THEN "analyze"
                     ELSE IF c_out.pool THEN "fetch" ELSE "returned"
    /\ UNCHANGED <<c_fn, c_arg, detectVars, limiterVars,
                   batchVars, feeVars, readVars>>

\* commands.py lines 415-419: without a pool address the user is asked for
\* one
PromptPool ==
    /\ c_fn = "cmd_report"
    /\ c_pc = "fallback"
    /\ \E typed \in BOOLEAN :
          IF c_out.pool
          THEN c_pc' = "fetch" /\ c_out' = c_out
          ELSE /\ c_out' = [Effect("prompt") EXCEPT !.pool = typed]
               /\ c_pc' = IF typed THEN "fetch" ELSE "returned"
    /\ UNCHANGED <<c_fn, c_arg, detectVars, limiterVars,
                   batchVars, feeVars, readVars>>

\* commands.py lines 421-428: analyze_pool_real for the given pool
FetchPool ==
    /\ c_fn = "cmd_report"
    /\ c_pc = "fetch"
    /\ c_out' = Effect("http:dexscreener")
    /\ c_pc' \in {"analyze", "returned", "raised"}
    /\ UNCHANGED <<c_fn, c_arg, detectVars, limiterVars,
                   batchVars, feeVars, readVars>>

\* commands.py lines 430-442: the analysis, which may raise, and the report
GenerateReport ==
    /\ c_fn = "cmd_report"
    /\ c_pc = "analyze"
    /\ \/ c_out' = Effect("report") /\ c_pc' = "returned"
       \/ c_out' = c_out /\ c_pc' = "raised"
    /\ UNCHANGED <<c_fn, c_arg, detectVars, limiterVars,
                   batchVars, feeVars, readVars>>

\* cmd_report(pool, position_id, wallet, network, dex) is called: each
\* argument is given or not, and the user will answer the prompt.
InitReport ==
    /\ BatchInit /\ FeeIdle /\ ReadIdle /\ DetectIdle /\ LimiterIdle
    /\ c_pc = "called"
    /\ c_fn = "cmd_report"
    /\ c_arg \in [answer : ConsentInputs, position_id : BOOLEAN,
                  network : BOOLEAN, pool : BOOLEAN]
    /\ c_out = [consent |-> <<>>, effects |-> <<>>, onchain |-> FALSE,
                pool |-> c_arg.pool]

NextReport ==
    \/ RequireConsent
    \/ DetectNetwork
    \/ ReadOnchain
    \/ FetchMarket
    \/ PromptPool
    \/ FetchPool
    \/ GenerateReport

SpecReport == InitReport /\ [][NextReport]_vars

\* C27: cmd_report makes no network request, reads no on-chain data and
\* writes no report unless _require_consent returned True earlier in the
\* same invocation; consent is granted only when the typed answer, trimmed
\* and lower-cased, equals "i agree", and an interrupt or end-of-input
\* counts as refusal.
C27_ConsentGate ==
    c_fn = "cmd_report" =>
       /\ c_out.effects # <<>> => c_out.consent = <<TRUE>>
       /\ c_pc \notin {"called", "returned", "raised"} => c_out.consent = <<TRUE>>
       /\ c_out.consent = <<TRUE>> =>
             /\ c_arg.answer.raised = ""
             /\ \E i \in 1..(Len(c_arg.answer.text) - Len(IAgree) + 1) :
                   /\ \A k \in 1..Len(IAgree) :
                         c_arg.answer.text[i + k - 1] \in {IAgree[k], IAgree[k] - 32}
                   /\ \A k \in 1..Len(c_arg.answer.text) :
                         (k < i \/ k >= i + Len(IAgree)) =>
                            c_arg.answer.text[k] \in Whitespace
                   /\ c_arg.answer.text[i + 1] = 32

\* "  I agree  " was typed and a report was written after on-chain data was
\* read.
C27_Witness ==
    /\ c_fn = "cmd_report"
    /\ c_pc = "returned"
    /\ Len(c_arg.answer.text) > Len(IAgree)
    /\ c_out.consent = <<TRUE>>
    /\ c_out.onchain
    /\ \E i \in 1..Len(c_out.effects) : c_out.effects[i] = "rpc:read_position"
    /\ c_out.effects[Len(c_out.effects)] = "report"

\* A refusal: something else was typed and nothing happened.
C27_Refused ==
    /\ c_fn = "cmd_report"
    /\ c_pc = "returned"
    /\ c_out.consent = <<FALSE>>
    /\ c_arg.answer.raised = "EOFError"
    /\ c_out.effects = <<>>

\* C28: for every batch of N calls eth_call_batch returns exactly N entries
\* and entry i belongs to call i (the result of the response object that
\* answers call i, or the empty string) -- also when the server omits
\* responses, returns responses without an id, or answers with a single
\* object; no result is attributed to a different call, so a caller that
\* reads entries 1..N by position never reads past the end.
C28_EntryPerCall ==
    b_pc = "returned" =>
        /\ Len(b_out) = b_n
        /\ \A i \in 1..Len(b_out) : b_out[i] \in {ResultOf(i), EmptyPayload}

\* A batch of several calls was answered with fewer entries than calls.
C28_ShortResult ==
    /\ b_pc = "returned"
    /\ b_n >= 2
    /\ Len(b_out) < b_n

\* A reply with one entry per call was returned with a result in the place
\* of another call, because a response object had no id.
C28_Misattributed ==
    /\ b_pc = "returned"
    /\ Len(b_out) = b_n
    /\ \E i \in 1..b_n : \E j \in 1..b_n : i # j /\ b_out[i] = ResultOf(j)

\* The candidates whose attempt yielded a position.
C29_Holders == {i \in 1..Len(d_tasks) : YieldsPosition(i)}

\* C29: the network _detect_position_network returns does not depend on the
\* order in which the attempts complete: it returns only after every attempt
\* has finished, and when one or several networks hold a valid position the
\* earliest of them in the candidate list is returned.
C29_EarliestHolder ==
    d_pc = "returned" =>
        /\ \A i \in 1..Len(d_tasks) : d_tasks[i].pc = "done"
        /\ C29_Holders # {} =>
              \E i \in C29_Holders :
                 /\ \A j \in C29_Holders : i <= j
                 /\ d_out[1] = <<d_tasks[i].net>>

\* The part that holds whatever the answers are: every attempt has finished
\* and the result is the earliest candidate whose attempt returned its
\* network, in whatever order the attempts completed.
C29_EarliestAccepted ==
    d_pc = "returned" =>
        /\ \A i \in 1..Len(d_tasks) : d_tasks[i].pc = "done"
        /\ \A i \in 1..Len(d_tasks) :
              (d_tasks[i].result # <<>>
                 /\ \A j \in 1..(i - 1) : d_tasks[j].result = <<>>)
              => d_out[1] = <<d_tasks[i].net>>

\* An earlier candidate answered with a record whose token1 is zero, a later
\* one holds the position, and the earlier one was returned.
C29_WrongNetwork ==
    /\ d_pc = "returned"
    /\ C29_Holders # {}
    /\ \E i \in 1..Len(d_tasks) :
          /\ i \notin C29_Holders
          /\ \A j \in C29_Holders : i < j
          /\ d_out[1] = <<d_tasks[i].net>>

====
